---- MODULE Spec2Model ----
(***************************************************************************)
(* Model of the DeepLearningDSL evaluator (interpreter/dsl_interpreter.py) *)
(* and of its K-Means and Autoencoder engines.                             *)
(*                                                                         *)
(* Evaluator: the interpreter's fields (variables, functions, in_function, *)
(* return_value), the stack of call_user_function activations with their   *)
(* saved locals, and the position of interpret_code.  The program being    *)
(* run is an input: every step picks the next statement from small sets.   *)
(***************************************************************************)
EXTENDS Integers, Sequences, FiniteSets, TLC

\* ------------------------------------------------------------------ bounds
MaxDepth == 2        \* nested call_user_function activations
MaxSteps == 4        \* statements / calls executed by one program

\* ------------------------------------------------------------------ values
\* Python values are written as strings: "1", "2" are ints, "utf-8" a str,
\* "vec" the list [1, 2], "vec2" the list [1, 5], "list" some other list, "km1", "km2", "ae1" the
\* engine objects, "bytes" a bytes object, "float" a float, "None" is Unit.
\* Unbound marks a missing dict key.
Unbound == "<unbound>"
None == "None"
NoTarget == "<none>"

Names == {"x", "y"}
FuncNames == {"f", "g"}
ParamLists == {<<>>, <<"x">>}

ScalarConsts == {"1", "2"}
MlConsts == {"1", "utf-8", "vec", "vec2"}

ConstExpr(v) == [k |-> "const", a |-> v]
VarExpr(n) == [k |-> "var", a |-> n]
Exprs(consts) == {ConstExpr(v) : v \in consts} \cup {VarExpr(n) : n \in Names}
ScalarExprs == Exprs(ScalarConsts)
MlExprs == Exprs(MlConsts)
ArgLists(exprs) == {<<>>} \cup {<<e>> : e \in exprs}

\* an entry of self.functions: the parameter names, the statement_list node
\* and the return_stmt node of the definition
FuncDef(params, body, return_stmt) ==
    [params |-> params, body |-> body, return_stmt |-> return_stmt]
\* the function_def nodes of the program text: one statement_list for the
\* definitions without parameters, another for those with a parameter
BodyOf(params) == IF params = <<>> THEN "body1" ELSE "body2"
ReturnExprs == {ConstExpr("1"), VarExpr("x")}
FuncDefs == {FuncDef(ps, BodyOf(ps), e) : ps \in ParamLists, e \in ReturnExprs}
NoFunc == FuncDef(<<"<undefined>">>, "<undefined>", ConstExpr("<undefined>"))

VARIABLES
    pc,            \* position of interpret_code: parse, run, returned, raising, done
    variables,     \* self.variables
    functions,     \* self.functions
    in_function,   \* self.in_function
    return_value,  \* self.return_value
    stack,         \* locals of the active call_user_function calls, innermost first
    call_result,   \* value a call_user_function has just returned, and its consumer
    error,         \* the exception in flight
    acc,           \* value of the top-level statement list so far
    result,        \* first component of interpret_code's return value
    errors,        \* second component of interpret_code's return value
    entry,         \* history: interpreter state at entry of each active call
    bound,         \* history: names each active call bound (parameters, assignments)
    executed,      \* history: number of statements whose evaluation started
    error_raised,  \* history: an exception was raised during evaluation
    last_ml,       \* history: the last dispatch of visitMl_function
    exited,        \* history: the last call_user_function activation that ended
    parsed,        \* history: outcome of the syntax check
    last_def       \* history: the function_def the last step executed, if it was one

ivars == <<pc, variables, functions, in_function, return_value, stack,
           call_result, error, acc, result, errors, entry, bound, executed,
           error_raised, last_ml, exited, parsed, last_def>>

VARIABLES
    rng,           \* state of the process-wide random module: seed and draws made
    km,            \* the KMeansEngine instances
    ae,            \* the AutoencoderEngine instance
    last_call,     \* history: the last engine method call and how it ended
    km_data,       \* history: the data of each KMeansEngine's last completed fit
    first_fits     \* history: the first completed KMeansEngine fit of each configuration

evars == <<rng, km, ae, last_call, km_data, first_fits>>

VARIABLES
    fn_in,         \* the parse tree handed to a visitor method evaluated on its own
    fn_out,        \* what the method returned, <<>> before it has run
    handed         \* the list a caller keeps from get_centroids, and the list
                   \* objects it has in common with the engine

pvars == <<fn_in, fn_out, handed>>

vars == <<ivars, evars, pvars>>

\* ------------------------------------------------------------ construction
NoMl == [op |-> "none", via |-> ConstExpr("none"), recv |-> None, invoked |-> "none",
         outcome |-> "none"]

NoExit == [kind |-> "none", entry |-> None, bound |-> {}, callee |-> None,
           depth |-> 0, defined |-> {}, recursive |-> FALSE]

NoDef == [func |-> None, def |-> NoFunc]

NoHanded == [eng |-> 0, value |-> <<>>, orig |-> <<>>, rows_shared |-> {}]

\* DSLInterpreter.__init__ and the state before interpret_code runs
InterpInit ==
    /\ pc = "parse"
    /\ variables = [n \in Names |-> Unbound]
    /\ functions = [f \in FuncNames |-> NoFunc]
    /\ in_function = FALSE
    /\ return_value = None
    /\ stack = <<>>
    /\ call_result = [val |-> None, target |-> NoTarget]
    /\ error = None
    /\ acc = None
    /\ result = None
    /\ errors = <<>>
    /\ entry = <<>>
    /\ bound = <<>>
    /\ executed = 0
    /\ error_raised = FALSE
    /\ last_ml = NoMl
    /\ exited = NoExit
    /\ parsed = "no"
    /\ last_def = NoDef

\* -------------------------------------------------------------- expressions
\* a read that answers Unit for a missing key
visitBaseDefaultUnit(e, vs) ==
    [ok |-> TRUE, val |-> IF e.k = "var" THEN vs[e.a] ELSE e.a]

\* visitBase: a variable read fails with NameError when the key is missing
visitBase(e, vs) ==
    IF e.k = "var"
    THEN IF vs[e.a] # Unbound
         THEN [ok |-> TRUE, val |-> vs[e.a]]
         ELSE [ok |-> FALSE, val |-> "NameError"]
    ELSE [ok |-> TRUE, val |-> e.a]

\* visitArg_list: the arguments are evaluated left to right, the first
\* failure propagates
visitArg_list(args, vs) ==
    IF \E i \in 1..Len(args) : ~visitBase(args[i], vs).ok
    THEN [ok |-> FALSE, val |-> <<"NameError">>]
    ELSE [ok |-> TRUE, val |-> [i \in 1..Len(args) |-> visitBase(args[i], vs).val]]

\* visitStatement_list: the value of a list is the last non-None statement
\* value; inside a function body the value is discarded by the caller
StatementValue(v) ==
    IF stack = <<>> /\ v # None THEN v ELSE acc

\* an exception starts to propagate
Raise(msg) ==
    /\ pc' = "raising"
    /\ error' = msg
    /\ error_raised' = TRUE

\* a name is recorded as bound by the innermost active call
NoteBound(n) ==
    IF bound = <<>> THEN bound ELSE [bound EXCEPT ![1] = @ \cup {n}]

\* ---------------------------------------------------------------- handlers
\* interpret_code up to the syntax check
ParseProgram(ok) ==
    /\ pc = "parse"
    /\ IF ok
       THEN /\ pc' = "run"
            /\ UNCHANGED <<result, errors>>
       ELSE /\ pc' = "done"
            /\ result' = None
            /\ errors' = <<"Syntax error">>
    /\ parsed' = IF ok THEN "ok" ELSE "bad"
    /\ UNCHANGED <<variables, functions, in_function, return_value, stack,
                   call_result, error, acc, entry, bound, executed,
                   error_raised, last_ml, exited>>
    /\ last_def' = NoDef
    /\ UNCHANGED <<evars, pvars>>

\* visitAssignment with a base expression on the right
visitAssignment(n, e) ==
    /\ pc = "run"
    /\ executed < MaxSteps
    /\ executed' = executed + 1
    /\ LET r == visitBase(e, variables) IN
       IF r.ok
       THEN /\ variables' = [variables EXCEPT ![n] = r.val]
            /\ acc' = StatementValue(r.val)
            /\ bound' = NoteBound(n)
            /\ UNCHANGED <<pc, error, error_raised>>
       ELSE /\ Raise(r.val)
            /\ UNCHANGED <<variables, acc, bound>>
    /\ UNCHANGED <<functions, in_function, return_value, stack, call_result,
                   result, errors, entry, last_ml, exited, parsed>>
    /\ last_def' = NoDef
    /\ UNCHANGED <<evars, pvars>>

\* history record of a function_def statement: the name and the definition
DefRecord(f, def) == [func |-> f, def |-> def]

\* a definition that does not replace an earlier one of the same name
visitFunction_defKeepsFirst(f, params, body, return_stmt) ==
    /\ pc = "run"
    /\ executed < MaxSteps
    /\ executed' = executed + 1
    /\ functions' = IF functions[f] = NoFunc
                    THEN [functions EXCEPT ![f] = FuncDef(params, body, return_stmt)]
                    ELSE functions
    /\ last_def' = DefRecord(f, FuncDef(params, body, return_stmt))
    /\ UNCHANGED <<pc, variables, in_function, return_value, stack,
                   call_result, error, acc, result, errors, entry, bound,
                   error_raised, last_ml, exited, parsed>>
    /\ UNCHANGED <<evars, pvars>>

\* visitFunction_def
visitFunction_def(f, params, body, return_stmt) ==
    /\ pc = "run"
    /\ executed < MaxSteps
    /\ executed' = executed + 1
    /\ functions' = [functions EXCEPT ![f] = FuncDef(params, body, return_stmt)]
    /\ last_def' = DefRecord(f, FuncDef(params, body, return_stmt))
    /\ UNCHANGED <<pc, variables, in_function, return_value, stack,
                   call_result, error, acc, result, errors, entry, bound,
                   error_raised, last_ml, exited, parsed>>
    /\ UNCHANGED <<evars, pvars>>

CurrentState ==
    [variables |-> variables, in_function |-> in_function,
     return_value |-> return_value]

\* history record of an activation that ends
ExitRecord(kind) ==
    [kind |-> kind, entry |-> Head(entry).state, bound |-> Head(bound),
     callee |-> variables, depth |-> Len(stack),
     defined |-> {f \in FuncNames :
                    Head(entry).functions[f] = NoFunc /\ functions[f] # NoFunc},
     recursive |-> \E i \in 2..Len(entry) : entry[i].func = Head(entry).func]

\* finally block that leaves self.variables as the callee left it
FinallyKeepsVariables(frame, cur) ==
    [variables |-> cur.variables,
     in_function |-> frame.old_in_function,
     return_value |-> frame.old_return_value]

\* the finally block of call_user_function
Finally(frame, cur) ==
    [variables |-> frame.old_variables,
     in_function |-> frame.old_in_function,
     return_value |-> frame.old_return_value]

\* a callee environment built from an empty dict: parameters only
BindArgumentsFresh(vs, params, args) ==
    [n \in Names |->
        IF \E i \in 1..Len(params) : params[i] = n
        THEN args[CHOOSE i \in 1..Len(params) : params[i] = n]
        ELSE Unbound]

\* the environment the callee runs in: the caller's dict with each
\* parameter bound to its argument
BindArguments(vs, params, args) ==
    [n \in Names |->
        IF \E i \in 1..Len(params) : params[i] = n
        THEN args[CHOOSE i \in 1..Len(params) :
                    /\ params[i] = n
                    /\ \A j \in 1..Len(params) : params[j] = n => j <= i]
        ELSE vs[n]]

\* a save that forgets the flag and the pending return of the caller
SaveStateNoFlags(target) ==
    [old_variables |-> variables,
     old_in_function |-> TRUE,
     old_return_value |-> "1",
     target |-> target]

\* "Save current state": what call_user_function keeps in its locals
SaveState(target) ==
    [old_variables |-> variables,
     old_in_function |-> in_function,
     old_return_value |-> return_value,
     target |-> target]

\* an arity check that only notices missing arguments
ArityMismatchTooFew(args, params) == Len(args) < Len(params)

\* "if len(args) != len(params): raise ValueError"
ArityMismatch(args, params) == Len(args) # Len(params)

\* visitFunction_call / call_user_function up to the try block; target is
\* the variable the call's value is assigned to, if the call is the right
\* side of an assignment
CallEnter(f, args, target) ==
    /\ pc = "run"
    /\ executed < MaxSteps
    /\ Len(stack) < MaxDepth
    /\ executed' = executed + 1
    /\ LET a == visitArg_list(args, variables) IN
       IF ~a.ok
       THEN /\ Raise("NameError")
            /\ UNCHANGED <<variables, in_function, return_value, stack, entry, bound>>
       ELSE IF functions[f] = NoFunc
       THEN /\ Raise("NameError")
            /\ UNCHANGED <<variables, in_function, return_value, stack, entry, bound>>
       ELSE IF ArityMismatch(a.val, functions[f].params)
       THEN /\ Raise("ValueError")
            /\ UNCHANGED <<variables, in_function, return_value, stack, entry, bound>>
       ELSE /\ stack' = <<SaveState(target) @@ [func_def |-> functions[f]]>> \o stack
            /\ in_function' = TRUE
            /\ return_value' = None
            /\ variables' = BindArguments(variables, functions[f].params, a.val)
            /\ entry' = <<[state |-> CurrentState, func |-> f, args |-> a.val,
                            params |-> functions[f].params,
                            functions |-> functions]>> \o entry
            /\ bound' = <<{functions[f].params[i] :
                             i \in 1..Len(functions[f].params)}>> \o bound
            /\ UNCHANGED <<pc, error, error_raised>>
    /\ UNCHANGED <<functions, call_result, acc, result, errors, last_ml, exited, parsed>>
    /\ last_def' = NoDef
    /\ UNCHANGED <<evars, pvars>>

\* the body is over: visitReturn_stmt on the return_stmt of the definition
\* the call started with, then the finally block
CallReturn ==
    /\ pc = "run"
    /\ stack # <<>>
    /\ LET r == visitBase(Head(stack).func_def.return_stmt, variables) IN
       IF r.ok
       THEN LET fin == Finally(Head(stack),
                               [CurrentState EXCEPT !.return_value = r.val]) IN
            /\ variables' = fin.variables
            /\ in_function' = fin.in_function
            /\ return_value' = fin.return_value
            /\ stack' = Tail(stack)
            /\ entry' = Tail(entry)
            /\ bound' = Tail(bound)
            /\ call_result' = [val |-> r.val, target |-> Head(stack).target]
            /\ pc' = "returned"
            /\ exited' = ExitRecord("return")
            /\ UNCHANGED <<error, error_raised>>
       ELSE /\ Raise(r.val)
            /\ UNCHANGED <<variables, in_function, return_value, stack,
                           entry, bound, call_result, exited>>
    /\ UNCHANGED <<functions, acc, result, errors, executed, last_ml, parsed>>
    /\ last_def' = NoDef
    /\ UNCHANGED <<evars, pvars>>

\* the caller consumes the value of the call: visitAssignment stores it,
\* a call statement yields it as the statement's value
AfterCall ==
    /\ pc = "returned"
    /\ pc' = "run"
    /\ IF call_result.target # NoTarget
       THEN /\ variables' = [variables EXCEPT ![call_result.target] = call_result.val]
            /\ bound' = NoteBound(call_result.target)
       ELSE UNCHANGED <<variables, bound>>
    /\ acc' = StatementValue(call_result.val)
    /\ call_result' = [val |-> None, target |-> NoTarget]
    /\ UNCHANGED <<functions, in_function, return_value, stack, error,
                   result, errors, entry, executed, error_raised, last_ml, exited, parsed>>
    /\ last_def' = NoDef
    /\ UNCHANGED <<evars, pvars>>

\* an exception leaves one call_user_function through its finally block
Unwind ==
    /\ pc = "raising"
    /\ stack # <<>>
    /\ LET fin == Finally(Head(stack), CurrentState) IN
       /\ variables' = fin.variables
       /\ in_function' = fin.in_function
       /\ return_value' = fin.return_value
    /\ stack' = Tail(stack)
    /\ entry' = Tail(entry)
    /\ bound' = Tail(bound)
    /\ exited' = ExitRecord("error")
    /\ UNCHANGED <<pc, functions, call_result, error, acc, result, errors,
                   executed, error_raised, last_ml, parsed>>
    /\ last_def' = NoDef
    /\ UNCHANGED <<evars, pvars>>

\* an except clause that hands back the value computed so far
ExceptClauseKeepsResult(partial, e) ==
    [result |-> partial, errors |-> <<e>>]

\* except Exception as e: return None, [str(e)]
ExceptClause(partial, e) ==
    [result |-> None, errors |-> <<e>>]

\* interpret_code: an exception reaches the try block of interpret_code
InterpretCatch ==
    /\ pc = "raising"
    /\ stack = <<>>
    /\ pc' = "done"
    /\ result' = ExceptClause(acc, error).result
    /\ errors' = ExceptClause(acc, error).errors
    /\ UNCHANGED <<variables, functions, in_function, return_value, stack,
                   call_result, error, acc, entry, bound, executed,
                   error_raised, last_ml, exited, parsed>>
    /\ last_def' = NoDef
    /\ UNCHANGED <<evars, pvars>>

\* interpret_code: return result, []
InterpretReturn ==
    /\ pc = "run"
    /\ stack = <<>>
    /\ pc' = "done"
    /\ result' = acc
    /\ errors' = <<>>
    /\ UNCHANGED <<variables, functions, in_function, return_value, stack,
                   call_result, error, acc, entry, bound, executed,
                   error_raised, last_ml, exited, parsed>>
    /\ last_def' = NoDef
    /\ UNCHANGED <<evars, pvars>>

\* visitPlot_function: the try block covers the evaluation of the arguments
\* and the plotter call; plotted says whether the plotter itself succeeds
visitPlot_function(kind, e1, e2, plotted) ==
    /\ pc = "run"
    /\ executed < MaxSteps
    /\ executed' = executed + 1
    /\ LET r1 == visitBase(e1, variables)
           r2 == IF kind = "scatter" THEN visitBase(e2, variables) ELSE r1
       IN IF r1.ok /\ r2.ok /\ plotted
          THEN /\ acc' = StatementValue(None)
               /\ UNCHANGED error_raised
          ELSE /\ acc' = StatementValue("Plot function error")
               /\ error_raised' = (error_raised \/ ~(r1.ok /\ r2.ok))
    /\ UNCHANGED <<pc, variables, functions, in_function, return_value, stack,
                   call_result, error, result, errors, entry, bound, last_ml,
                   exited, parsed>>
    /\ last_def' = NoDef
    /\ UNCHANGED <<evars, pvars>>

\* visitMatrix_operation: every failure is raised again as RuntimeError;
\* computed says whether the matrix kernel itself succeeds
visitMatrix_operation(op, e1, e2, computed) ==
    /\ pc = "run"
    /\ executed < MaxSteps
    /\ executed' = executed + 1
    /\ LET r1 == visitBase(e1, variables)
           r2 == IF op \in {"matmult", "matadd", "matsub"}
                 THEN visitBase(e2, variables) ELSE r1
       IN IF r1.ok /\ r2.ok /\ computed
          THEN /\ acc' = StatementValue("list")
               /\ UNCHANGED <<pc, error, error_raised>>
          ELSE /\ Raise("RuntimeError")
               /\ UNCHANGED acc
    /\ UNCHANGED <<variables, functions, in_function, return_value, stack,
                   call_result, result, errors, entry, bound, last_ml,
                   exited, parsed>>
    /\ last_def' = NoDef
    /\ UNCHANGED <<evars, pvars>>

\* ======================================================================
\* Engines (interpreter/kmeans_engine.py, interpreter/autoencoder_engine.py)
\* ======================================================================
\* The state is the engine objects and the random module they share.  Data
\* are lists of one-feature samples (the "single feature" input of fit and
\* predict); centroids are exact rationals <<numerator, denominator>>, so
\* the means and the distance comparisons are those of the code up to
\* floating-point rounding.

\* ------------------------------------------------------------------ bounds
RandLevels == 2      \* random.random() yields one of 0/RandLevels .. (RandLevels-1)/RandLevels
MaxDraw == 6         \* draws taken from the random module after a seed
MaxIter == 3         \* largest max_iterations given to a KMeansEngine
MaxBatch == 2        \* most samples in one list handed to the autoencoder

KMIds == {1, 2}
KMClusters == {2}
KMMaxIterations == {0, 1, MaxIter}
KMInputs == {<<>>, <<5>>, <<1, 2, 4, 11>>}
MutationValues == {<<0, 1>>}
FitClusters == {1, 2}
FitData == KMInputs \cup {<<1, 2>>, <<0, 3>>}
Tolerances == {<<0, 1>>, <<1, 2>>, <<1, 1000000>>}
DefaultSeed == 42
DefaultTolerance == <<1, 1000000>>

\* -------------------------------------------------------------- rationals
Abs(i) == IF i < 0 THEN -i ELSE i

RECURSIVE GCD(_, _)
GCD(a, b) == IF b = 0 THEN a ELSE GCD(b, a % b)

Rat(n, d) == LET g == GCD(Abs(n), d) IN <<n \div g, d \div g>>

RatLess(a, b) == a[1] * b[2] < b[1] * a[2]

RECURSIVE SumOver(_, _)
SumOver(S, X) ==
    IF S = {} THEN 0
    ELSE LET i == CHOOSE j \in S : TRUE IN X[i] + SumOver(S \ {i}, X)

\* ---------------------------------------------------------------- KMeans
\* KMeansEngine.__init__ (the fields; the seeding is in KMConstruct)
NewKMeans(n_clusters, max_iterations, random_state) ==
    [alive |-> TRUE,
     n_clusters |-> n_clusters,
     max_iterations |-> max_iterations,
     tolerance |-> DefaultTolerance,
     random_state |-> random_state,
     centroids |-> <<>>,
     labels |-> <<>>,
     fitted |-> FALSE]

NoKMeans == [NewKMeans(0, 0, 0) EXCEPT !.alive = FALSE]

\* _euclidean_distance of a sample and a centroid with one feature
EuclideanDistance(x, c) == Rat(Abs(x * c[2] - c[1]), c[2])

\* random.uniform(a, b) = a + (b - a) * random.random()
Uniform(a, b, u) == Rat(a * RandLevels + (b - a) * u, RandLevels)

MinOf(X) == CHOOSE m \in {X[i] : i \in 1..Len(X)} : \A i \in 1..Len(X) : m <= X[i]
MaxOf(X) == CHOOSE m \in {X[i] : i \in 1..Len(X)} : \A i \in 1..Len(X) : m >= X[i]

\* _initialize_centroids: one draw per cluster and feature
InitializeCentroids(X, n_clusters, draws) ==
    [c \in 1..n_clusters |-> Uniform(MinOf(X), MaxOf(X), draws[c])]

\* the inner loop of _assign_clusters: the first centroid at minimal distance
RECURSIVE ClosestFrom(_, _, _, _)
ClosestFrom(x, centroids, i, best) ==
    IF i > Len(centroids) THEN best
    ELSE IF RatLess(EuclideanDistance(x, centroids[i]),
                    EuclideanDistance(x, centroids[best]))
         THEN ClosestFrom(x, centroids, i + 1, i)
         ELSE ClosestFrom(x, centroids, i + 1, best)

\* _assign_clusters: labels count from 0
AssignClusters(X, centroids) ==
    [s \in 1..Len(X) |->
        IF centroids = <<>> THEN 0 ELSE ClosestFrom(X[s], centroids, 2, 1) - 1]

\* an update that starts an empty cluster again at the origin
UpdateCentroidsResetsEmpty(X, labels, centroids, n_clusters) ==
    [c \in 1..n_clusters |->
        LET cluster_points == {s \in 1..Len(X) : labels[s] = c - 1} IN
        IF cluster_points # {}
        THEN Rat(SumOver(cluster_points, X), Cardinality(cluster_points))
        ELSE <<0, 1>>]

\* _update_centroids: the mean of the assigned samples, or the old centroid
UpdateCentroids(X, labels, centroids, n_clusters) ==
    [c \in 1..n_clusters |->
        LET cluster_points == {s \in 1..Len(X) : labels[s] = c - 1} IN
        IF cluster_points # {}
        THEN Rat(SumOver(cluster_points, X), Cardinality(cluster_points))
        ELSE centroids[c]]

\* a convergence test for which a move of exactly the tolerance is a change
CentroidsChangedAtTolerance(old, new, tolerance) ==
    \E i \in 1..Len(old) :
        ~RatLess(Rat(Abs(old[i][1] * new[i][2] - new[i][1] * old[i][2]),
                     old[i][2] * new[i][2]),
                 tolerance)

\* _centroids_changed: some centroid moved by more than the tolerance
CentroidsChanged(old, new, tolerance) ==
    \E i \in 1..Len(old) :
        RatLess(tolerance,
                Rat(Abs(old[i][1] * new[i][2] - new[i][1] * old[i][2]),
                    old[i][2] * new[i][2]))

\* one round of the loop of fit: new_labels, then the updated centroids
FitRound(eng, X, centroids) ==
    CHOOSE r \in {[labels |-> new_labels,
                    centroids |-> UpdateCentroids(X, new_labels, centroids, eng.n_clusters)] :
                        new_labels \in {AssignClusters(X, centroids)}} : TRUE

\* history of one round: old_centroids, new_labels and self.centroids
\* after the update
RoundRecord(old_centroids, r) ==
    [old_centroids |-> old_centroids, new_labels |-> r.labels, centroids |-> r.centroids]

\* the iterations of fit; labels is new_labels of the last round run,
\* trace the history of the rounds run from this one on
RECURSIVE FitLoop(_, _, _, _, _)
FitLoop(eng, X, centroids, labels, iteration) ==
    IF iteration >= eng.max_iterations
    THEN [centroids |-> centroids, labels |-> labels, rounds |-> iteration,
          trace |-> <<>>]
    ELSE CHOOSE out \in
            {IF ~CentroidsChanged(centroids, r.centroids, eng.tolerance)
             THEN [centroids |-> r.centroids, labels |-> r.labels,
                   rounds |-> iteration + 1,
                   trace |-> <<RoundRecord(centroids, r)>>]
             ELSE CHOOSE all \in
                    {[rest EXCEPT !.trace = <<RoundRecord(centroids, r)>> \o @] :
                        rest \in {FitLoop(eng, X, r.centroids, r.labels, iteration + 1)}} : TRUE :
                r \in {FitRound(eng, X, centroids)}} : TRUE

\* fit rejects the input before it touches the engine: "not X or not X[0]"
\* (a first sample equal to 0 is falsy), then fewer samples than clusters
FitRejects(eng, X) ==
    \/ X = <<>>
    \/ X[1] = 0
    \/ Len(X) < eng.n_clusters

\* number of random draws a fit makes
FitDraws(eng, X) == IF FitRejects(eng, X) THEN 0 ELSE eng.n_clusters

\* a fit that forgets the previous training before it looks at the input
FitClearsFirst(eng, X, draws) ==
    IF FitRejects(eng, X)
    THEN [eng |-> [eng EXCEPT !.centroids = <<>>, !.labels = <<>>, !.fitted = FALSE],
          outcome |-> "raise", error |-> "ValueError", trace |-> <<>>]
    ELSE LET start == InitializeCentroids(X, eng.n_clusters, draws) IN
         IF eng.max_iterations = 0
         THEN [eng |-> [eng EXCEPT !.centroids = start],
               outcome |-> "raise", error |-> "UnboundLocalError", trace |-> <<>>]
         ELSE LET r == FitLoop(eng, X, start, <<>>, 0) IN
              [eng |-> [eng EXCEPT !.centroids = r.centroids,
                                   !.labels = r.labels,
                                   !.fitted = TRUE],
               outcome |-> "return", error |-> None, trace |-> r.trace]

\* KMeansEngine.fit: the engine after the call and how the call ended
Fit(eng, X, draws) ==
    IF FitRejects(eng, X)
    THEN [eng |-> eng, outcome |-> "raise", error |-> "ValueError", trace |-> <<>>]
    ELSE LET start == InitializeCentroids(X, eng.n_clusters, draws) IN
         IF eng.max_iterations = 0
         THEN [eng |-> [eng EXCEPT !.centroids = start],
               outcome |-> "raise", error |-> "UnboundLocalError", trace |-> <<>>]
         ELSE LET r == FitLoop(eng, X, start, <<>>, 0) IN
              [eng |-> [eng EXCEPT !.centroids = r.centroids,
                                   !.labels = r.labels,
                                   !.fitted = TRUE],
               outcome |-> "return", error |-> None, trace |-> r.trace]

\* a guard that lets every call through
RequireFittedAlways(eng) == TRUE

\* "if not self.fitted: raise ValueError"
RequireFitted(eng) == eng.fitted

\* KMeansEngine.predict
Predict(eng, X) ==
    IF ~RequireFitted(eng)
    THEN [outcome |-> "raise", value |-> <<>>]
    ELSE IF X = <<>>
    THEN [outcome |-> "raise", value |-> <<>>]
    ELSE [outcome |-> "return", value |-> <<AssignClusters(X, eng.centroids)>>]

\* a copy that is a new outer list of the engine's own rows:
\* [centroid for centroid in self.centroids]
CopyCentroidsShallow(centroids) ==
    [value |-> centroids, rows_shared |-> 1..Len(centroids)]

\* [centroid[:] for centroid in self.centroids]: the comprehension builds a
\* new outer list and each slice a new row with the same numbers;
\* rows_shared are the rows that are the same list object as the engine's
CopyCentroids(centroids) ==
    [value |-> centroids, rows_shared |-> {}]

\* KMeansEngine.get_centroids
GetCentroids(eng) ==
    IF ~RequireFitted(eng)
    THEN [outcome |-> "raise", value |-> <<>>]
    ELSE [outcome |-> "return", value |-> <<CopyCentroids(eng.centroids).value>>]

\* the first three decimals of the values random.random() yields after
\* random.seed(42)
RandomStream ==
    <<639, 25, 275, 223, 736, 676, 892, 86, 421, 29, 218, 505, 26, 198, 649, 544>>

\* the n draws made from position pos on, as multiples of 1/RandLevels
DrawsAt(pos, n) ==
    [i \in 1..n |-> (RandomStream[pos + i] * RandLevels) \div 1000]

\* the configuration and data that determine what a fit should compute
FitKey(eng, X) ==
    [seed |-> eng.random_state, n_clusters |-> eng.n_clusters,
     max_iterations |-> eng.max_iterations, data |-> X]

Call(kind, eng, op, input, before, outcome, value) ==
    [kind |-> kind, eng |-> eng, op |-> op, input |-> <<input>>,
     fitted_before |-> before, outcome |-> outcome, value |-> value]

NoCall == Call("none", 0, "none", <<>>, FALSE, "none", <<>>)

\* the engine objects, the random module and the history as one value
EngState ==
    [rng |-> rng, km |-> km, ae |-> ae, last_call |-> last_call,
     km_data |-> km_data, first_fits |-> first_fits]

SetEngState(s) ==
    /\ rng' = s.rng
    /\ km' = s.km
    /\ ae' = s.ae
    /\ last_call' = s.last_call
    /\ km_data' = s.km_data
    /\ first_fits' = s.first_fits

\* KMeansEngine(n_clusters, max_iterations): random.seed(random_state)
KMConstructEffect(s, e, n_clusters, max_iterations) ==
    [s EXCEPT !.km[e] = NewKMeans(n_clusters, max_iterations, DefaultSeed),
              !.rng = [seed |-> DefaultSeed, pos |-> 0],
              !.last_call = Call("km", e, "__init__", <<>>, FALSE, "return", <<>>)]

\* the effect of engine e's fit(X) on the engine, the random module and
\* the history; op tells fit from fit_predict, which returns self.labels
KMFitEffect(s, e, X, op) ==
    CHOOSE t \in
        {[s EXCEPT
            !.km[e] = r.eng,
            !.rng.pos = @ + FitDraws(s.km[e], X),
            !.last_call = Call("km", e, op, X, s.km[e].fitted, r.outcome,
                               IF r.outcome = "return"
                               THEN IF op = "fit" THEN <<"self">> ELSE <<r.eng.labels>>
                               ELSE <<>>),
            !.km_data[e] = IF r.outcome = "return" THEN X ELSE @,
            !.first_fits =
                IF r.outcome = "return" /\ ~\E f \in @ : f.key = FitKey(s.km[e], X)
                THEN @ \cup {[key |-> FitKey(s.km[e], X),
                              centroids |-> r.eng.centroids,
                              labels |-> r.eng.labels]}
                ELSE @] :
         r \in {Fit(s.km[e], X, DrawsAt(s.rng.pos, FitDraws(s.km[e], X)))}} : TRUE

\* a predict that keeps the labels it computed in the engine
KMPredictEffectStoresLabels(s, e, X) ==
    CHOOSE t \in
        {[s EXCEPT !.km[e].labels = IF r.outcome = "return" THEN r.value[1] ELSE @,
                   !.last_call = Call("km", e, "predict", X, s.km[e].fitted,
                                      r.outcome, r.value)] :
         r \in {Predict(s.km[e], X)}} : TRUE

\* the effect of engine e's predict(X): the engine is only read
KMPredictEffect(s, e, X) ==
    CHOOSE t \in
        {[s EXCEPT !.last_call = Call("km", e, "predict", X, s.km[e].fitted,
                                      r.outcome, r.value)] :
         r \in {Predict(s.km[e], X)}} : TRUE

\* the effect of engine e's get_centroids()
KMGetCentroidsEffect(s, e) ==
    CHOOSE t \in
        {[s EXCEPT !.last_call = Call("km", e, "get_centroids", <<>>, s.km[e].fitted,
                                      r.outcome, r.value)] :
         r \in {GetCentroids(s.km[e])}} : TRUE

\* a program constructs engine e
KMConstruct(e, n_clusters, max_iterations) ==
    /\ ~km[e].alive
    /\ SetEngState(KMConstructEffect(EngState, e, n_clusters, max_iterations))
    /\ UNCHANGED <<ivars, pvars>>

\* a program calls fit or fit_predict on engine e
FitStep(e, X, op) ==
    /\ km[e].alive
    /\ rng.pos + FitDraws(km[e], X) <= MaxDraw
    /\ \E t \in {KMFitEffect(EngState, e, X, op)} : SetEngState(t)
    /\ UNCHANGED <<ivars, pvars>>

\* engine.fit(X)
KMFit(e, X) == FitStep(e, X, "fit")

\* engine.fit_predict(X): self.fit(X); return self.labels
KMFitPredict(e, X) == FitStep(e, X, "fit_predict")

\* engine.predict(X)
KMPredict(e, X) ==
    /\ km[e].alive
    /\ \E t \in {KMPredictEffect(EngState, e, X)} : SetEngState(t)
    /\ UNCHANGED <<ivars, pvars>>

\* engine.get_centroids()
KMGetCentroids(e) ==
    /\ km[e].alive
    /\ \E t \in {KMGetCentroidsEffect(EngState, e)} : SetEngState(t)
    /\ UNCHANGED <<ivars, pvars>>

\* the calls engine.fit(X) of a newly constructed engine: the engine as
\* __init__ leaves it, the data, and the values random.uniform draws
FitCalls ==
    {[eng |-> e, X |-> X, draws |-> d] :
        e \in {[NewKMeans(k, mi, DefaultSeed) EXCEPT !.tolerance = tol] :
                  k \in FitClusters, mi \in KMMaxIterations, tol \in Tolerances},
        X \in FitData,
        d \in UNION {[1..n -> 0..(RandLevels - 1)] : n \in {0} \cup FitClusters}}

\* kept = engine.get_centroids(): the caller keeps the returned list
KeepCentroids(e) ==
    /\ km[e].alive
    /\ \E t \in {KMGetCentroidsEffect(EngState, e)} :
         /\ SetEngState(t)
         /\ handed' = IF t.last_call.outcome = "return"
                       THEN [eng |-> e,
                             value |-> t.last_call.value[1],
                             orig |-> t.last_call.value[1],
                             rows_shared |-> CopyCentroids(km[e].centroids).rows_shared]
                       ELSE handed
    /\ UNCHANGED <<ivars, fn_in, fn_out>>

\* engine.fit(X) while a caller keeps a list: fit binds self.centroids to
\* the new lists of _initialize_centroids and _update_centroids
FitKept(e, X) ==
    /\ km[e].alive
    /\ rng.pos + FitDraws(km[e], X) <= MaxDraw
    /\ \E t \in {KMFitEffect(EngState, e, X, "fit")} : SetEngState(t)
    /\ handed' = IF handed.eng = e /\ ~FitRejects(km[e], X) THEN NoHanded ELSE handed
    /\ UNCHANGED <<ivars, fn_in, fn_out>>

\* kept[i][0] = v: the caller assigns to an item of one row of the list it keeps
MutateRow(i, v) ==
    /\ handed.eng # 0
    /\ i \in 1..Len(handed.value)
    /\ handed' = [handed EXCEPT !.value[i] = v]
    /\ km' = IF i \in handed.rows_shared
             THEN [km EXCEPT ![handed.eng].centroids[i] = v]
             ELSE km
    /\ last_call' = Call("caller", handed.eng, "mutate", <<"row", i, v>>,
                         km[handed.eng].fitted, "return", <<>>)
    /\ UNCHANGED <<rng, ae, km_data, first_fits, ivars, fn_in, fn_out>>

\* kept[i] = [v]: the caller replaces one row of the outer list it keeps
MutateOuter(i, v) ==
    /\ handed.eng # 0
    /\ i \in 1..Len(handed.value)
    /\ handed' = [handed EXCEPT !.value[i] = v, !.rows_shared = @ \ {i}]
    /\ last_call' = Call("caller", handed.eng, "mutate", <<"outer", i, v>>,
                         km[handed.eng].fitted, "return", <<>>)
    /\ UNCHANGED <<rng, km, ae, km_data, first_fits, ivars, fn_in, fn_out>>

\* ------------------------------------------------------------ Autoencoder
\* An input is one sample (a list of numbers) or a list of samples; the
\* shape field records which, as isinstance(X[0], (int, float)) tells them
\* apart.  The floats the network computes are not modelled: every
\* computed number is written 0, the weights are named after the draws and
\* the data they were trained from.
Vector(v) == [shape |-> "vector", vec |-> v, rows |-> <<>>]
Matrix(rows) == [shape |-> "matrix", vec |-> <<>>, rows |-> rows]
Scalar(x) == [shape |-> "scalar", vec |-> <<x>>, rows |-> <<>>]

AEInputsOf(sample) ==
    {Vector(sample)} \cup {Matrix([i \in 1..n |-> sample]) : n \in 1..MaxBatch}
AEInputs == AEInputsOf(<<1, 2>>) \cup AEInputsOf(<<0>>)
AEInputDims == {2}
AEEncodingDims == {1}
AEMaxEpochs == {1}

\* AutoencoderEngine.__init__ (the fields; the seeding is in AEConstruct)
NewAutoencoder(input_dim, encoding_dim, max_epochs) ==
    [alive |-> TRUE,
     input_dim |-> input_dim,
     encoding_dim |-> encoding_dim,
     max_epochs |-> max_epochs,
     weights |-> <<>>,
     fitted |-> FALSE]

NoAutoencoder == [NewAutoencoder(0, 0, 0) EXCEPT !.alive = FALSE]

\* "if isinstance(X[0], (int, float)): X = [X]"
Samples(X) == IF X.shape = "vector" THEN <<X.vec>> ELSE X.rows

\* "return data[0] if len(data) == 1 else data"
SingleOrList(results) ==
    IF Len(results) = 1 THEN Vector(results[1]) ELSE Matrix(results)

\* _forward_pass reads x[0..input_dim-1]: IndexError on a shorter sample
ForwardFails(eng, x) == Len(x) < eng.input_dim

\* the encoded half of _forward_pass
Encoded(eng, x) == [j \in 1..eng.encoding_dim |-> 0]

\* the decoded half of _forward_pass, and the decoder loop of decode
Decoded(eng, x) == [i \in 1..eng.input_dim |-> 0]

Raised == [outcome |-> "raise", value |-> <<>>]
Returned(v) == [outcome |-> "return", value |-> <<v>>]

\* AutoencoderEngine.encode
Encode(eng, X) ==
    IF ~RequireFitted(eng) THEN Raised
    ELSE IF \E r \in 1..Len(Samples(X)) : ForwardFails(eng, Samples(X)[r]) THEN Raised
    ELSE Returned(SingleOrList([r \in 1..Len(Samples(X)) |-> Encoded(eng, Samples(X)[r])]))

\* AutoencoderEngine.decode reads encoded_sample[0..encoding_dim-1]
Decode(eng, X) ==
    IF ~RequireFitted(eng) THEN Raised
    ELSE IF \E r \in 1..Len(Samples(X)) : Len(Samples(X)[r]) < eng.encoding_dim THEN Raised
    ELSE Returned(SingleOrList([r \in 1..Len(Samples(X)) |-> Decoded(eng, Samples(X)[r])]))

\* AutoencoderEngine.reconstruct
Reconstruct(eng, X) ==
    IF ~RequireFitted(eng) THEN Raised
    ELSE IF \E r \in 1..Len(Samples(X)) : ForwardFails(eng, Samples(X)[r]) THEN Raised
    ELSE Returned(SingleOrList([r \in 1..Len(Samples(X)) |-> Decoded(eng, Samples(X)[r])]))

\* AutoencoderEngine.reconstruction_error: reconstruct([sample]) must hand
\* back one vector, reconstructed[i] - sample[i] is a TypeError on a list
ReconstructionError(eng, X) ==
    IF ~RequireFitted(eng) THEN Raised
    ELSE IF \E r \in 1..Len(Samples(X)) :
                \/ Reconstruct(eng, Matrix(<<Samples(X)[r]>>)).outcome = "raise"
                \/ Reconstruct(eng, Matrix(<<Samples(X)[r]>>)).value[1].shape # "vector"
    THEN Raised
    ELSE Returned(Scalar(0))

\* draws of AutoencoderEngine.fit: two Xavier matrices, and one shuffle of
\* the sample order per epoch (a shuffle of n samples draws n - 1 times)
AEFitDraws(eng, X) ==
    2 * eng.input_dim * eng.encoding_dim + eng.max_epochs * (Len(Samples(X)) - 1)

\* AutoencoderEngine.fit: the weights are initialised before the first
\* forward pass can fail; fitted is set after the last epoch
AEFitResult(eng, X, pos) ==
    LET init == [eng EXCEPT !.weights = <<[pos |-> pos, data |-> <<>>]>>] IN
    IF eng.max_epochs > 0 /\ \E r \in 1..Len(Samples(X)) : ForwardFails(eng, Samples(X)[r])
    THEN [eng |-> init, outcome |-> "raise"]
    ELSE [eng |-> [init EXCEPT !.weights = <<[pos |-> pos, data |-> Samples(X)]>>,
                               !.fitted = TRUE],
          outcome |-> "return"]

\* AutoencoderEngine(input_dim, encoding_dim): random.seed(42)
AEConstructEffect(s, input_dim, encoding_dim, max_epochs) ==
    [s EXCEPT !.ae = NewAutoencoder(input_dim, encoding_dim, max_epochs),
              !.rng = [seed |-> DefaultSeed, pos |-> 0],
              !.last_call = Call("ae", 1, "__init__", <<>>, FALSE, "return", <<>>)]

\* the effect of the autoencoder's fit(X)
AEFitEffect(s, X) ==
    CHOOSE t \in
        {[s EXCEPT
            !.ae = r.eng,
            !.rng.pos = @ + AEFitDraws(s.ae, X),
            !.last_call = Call("ae", 1, "fit", X, s.ae.fitted, r.outcome,
                               IF r.outcome = "return" THEN <<"self">> ELSE <<>>)] :
         r \in {AEFitResult(s.ae, X, s.rng.pos)}} : TRUE

\* the result of one of the autoencoder's reading methods
AEMethod(eng, op, X) ==
    CASE op = "encode" -> Encode(eng, X)
      [] op = "decode" -> Decode(eng, X)
      [] op = "reconstruct" -> Reconstruct(eng, X)
      [] op = "reconstruction_error" -> ReconstructionError(eng, X)

\* the effect of a reading method: the engine is only read
AEQueryEffect(s, op, X) ==
    CHOOSE t \in
        {[s EXCEPT !.last_call = Call("ae", 1, op, X, s.ae.fitted, r.outcome, r.value)] :
         r \in {AEMethod(s.ae, op, X)}} : TRUE

\* a program constructs the autoencoder
AEConstruct(input_dim, encoding_dim, max_epochs) ==
    /\ ~ae.alive
    /\ SetEngState(AEConstructEffect(EngState, input_dim, encoding_dim, max_epochs))
    /\ UNCHANGED <<ivars, pvars>>

\* engine.fit(X)
AEFit(X) ==
    /\ ae.alive
    /\ rng.pos + AEFitDraws(ae, X) <= MaxDraw
    /\ \E t \in {AEFitEffect(EngState, X)} : SetEngState(t)
    /\ UNCHANGED <<ivars, pvars>>

\* a program calls a reading method of the autoencoder
AEQuery(op, X) ==
    /\ ae.alive
    /\ \E t \in {AEQueryEffect(EngState, op, X)} : SetEngState(t)
    /\ UNCHANGED <<ivars, pvars>>

\* engine.encode(X)
AEEncode(X) == AEQuery("encode", X)

\* engine.decode(X)
AEDecode(X) == AEQuery("decode", X)

\* engine.reconstruct(X)
AEReconstruct(X) == AEQuery("reconstruct", X)

\* engine.reconstruction_error(X)
AEReconstructionError(X) == AEQuery("reconstruction_error", X)

\* ------------------------------------------------------- visitMl_function
\* the values that are engine objects, and the engine each one is
KMHandle == <<"km1", "km2">>
AEHandle == "ae1"
EngineOf(v) == CHOOSE e \in KMIds : KMHandle[e] = v

\* KMeansEngine(n_clusters=n_clusters) and AutoencoderEngine(input_dim,
\* encoding_dim) as visitMl_function builds them: the other parameters
\* take their defaults
DefaultMaxIterations == 100
DefaultMaxEpochs == 1000

TypeOf(v) ==
    IF \E e \in KMIds : KMHandle[e] = v THEN "KMeansEngine"
    ELSE IF v = AEHandle THEN "AutoencoderEngine"
    ELSE IF v = "utf-8" THEN "str"
    ELSE IF v \in {"vec", "vec2"} THEN "list"
    ELSE "int"

\* which of the names visitMl_function asks for each type of value has
Attributes(type) ==
    CASE type = "KMeansEngine" -> {"fit", "predict", "fit_predict", "get_centroids"}
      [] type = "AutoencoderEngine" ->
            {"fit", "encode", "decode", "reconstruct", "reconstruction_error"}
      [] type = "str" -> {"encode"}
      [] OTHER -> {}

\* hasattr(model, name)
HasAttr(v, name) == name \in Attributes(TypeOf(v))

\* len(v) of a str or list value
LenOf(v) == IF v = "utf-8" THEN 5 ELSE IF v \in {"vec", "vec2"} THEN 2 ELSE 0

\* the lists [1, 2] ("vec") and [1, 5] ("vec2") as the engines read them
KMData(v) == IF v = "vec2" THEN <<1, 5>> ELSE <<1, 2>>
AEData(v) == Vector(KMData(v))

\* how a branch of visitMl_function ends: the method it invoked, whether
\* it returned or raised, the value it returned and the engines afterwards
MlOutcome(invoked, outcome, value, s) ==
    [invoked |-> invoked, outcome |-> outcome, value |-> value, eng |-> s]

\* raise ValueError("Object does not have ... method")
NoMethod(s) == MlOutcome("none", "raise", None, s)

\* a method of an engine that raises on data it cannot index or compute
\* with, before it changes anything
MethodRaises(kind, e, method, data, eng, s) ==
    MlOutcome(method, "raise", None,
              [s EXCEPT !.last_call = Call(kind, e, method, data, eng.fitted,
                                           "raise", <<>>)])

\* what a returned engine value is to the program
ResultValue(method) ==
    IF method = "reconstruction_error" THEN "float" ELSE "list"

\* model.<method>(data) on a KMeansEngine
KMInvoke(e, method, data, s) ==
    IF method = "get_centroids"
    THEN MlOutcome(method, KMGetCentroidsEffect(s, e).last_call.outcome, "list",
                   KMGetCentroidsEffect(s, e))
    ELSE IF TypeOf(data) # "list"
    THEN MethodRaises("km", e, method, data, s.km[e], s)
    ELSE IF method = "predict"
    THEN MlOutcome(method, KMPredictEffect(s, e, KMData(data)).last_call.outcome, "list",
                   KMPredictEffect(s, e, KMData(data)))
    ELSE MlOutcome(method, KMFitEffect(s, e, KMData(data), method).last_call.outcome, "list",
                   KMFitEffect(s, e, KMData(data), method))

\* model.<method>(data) on an AutoencoderEngine
AEInvoke(method, data, s) ==
    IF TypeOf(data) # "list"
    THEN MethodRaises("ae", 1, method, data, s.ae, s)
    ELSE MlOutcome(method, AEQueryEffect(s, method, AEData(data)).last_call.outcome,
                   ResultValue(method), AEQueryEffect(s, method, AEData(data)))

\* "utf-8".encode(data): bytes when data names an encoding, else TypeError
StrEncode(data, s) ==
    IF TypeOf(data) = "str"
    THEN MlOutcome("str.encode", "return", "bytes", s)
    ELSE MlOutcome("str.encode", "raise", None, s)

\* model.<method>(data) on whatever passed the hasattr test
Invoke(model, method, data, s) ==
    CASE TypeOf(model) = "KMeansEngine" -> KMInvoke(EngineOf(model), method, data, s)
      [] TypeOf(model) = "AutoencoderEngine" -> AEInvoke(method, data, s)
      [] OTHER -> StrEncode(data, s)

\* the PREDICT, FIT_PREDICT, GET_CENTROIDS, ENCODE, DECODE, RECONSTRUCT and
\* RECONSTRUCTION_ERROR branches
Dispatch(op, model, data, s) ==
    IF HasAttr(model, op) THEN Invoke(model, op, data, s) ELSE NoMethod(s)

\* the TRAIN branch: model.train(data), else model.fit(data[0], data[1])
\* for a list of two; KMeansEngine.fit takes one argument, and
\* AutoencoderEngine.fit indexes data[0], a number
Train(model, data, s) ==
    IF HasAttr(model, "train") THEN Invoke(model, "train", data, s)
    ELSE IF HasAttr(model, "fit")
    THEN IF TypeOf(data) = "list" /\ LenOf(data) = 2
         THEN IF TypeOf(model) = "KMeansEngine"
              THEN MlOutcome("fit", "raise", None, s)
              ELSE MethodRaises("ae", 1, "fit", "1", s.ae, s)
         ELSE NoMethod(s)
    ELSE NoMethod(s)

\* a KMEANS branch that yields the engine it constructed without fitting it
KmeansUnfitted(e, X, n_clusters, s) ==
    IF TypeOf(X) = "list" /\ n_clusters = "1"
    THEN MlOutcome("none", "return", KMHandle[e],
                   KMConstructEffect(s, e, 1, DefaultMaxIterations))
    ELSE MlOutcome("fit", "raise", None,
                   [s EXCEPT !.rng = [seed |-> DefaultSeed, pos |-> 0],
                             !.last_call = Call("km", e, "fit", X, FALSE, "raise", <<>>)])

\* the KMEANS branch: a new engine e is constructed and fitted; an engine
\* whose fit raises is referenced by nothing
Kmeans(e, X, n_clusters, s) ==
    IF TypeOf(X) = "list" /\ n_clusters = "1"
    THEN MlOutcome("fit", "return", KMHandle[e],
                   KMFitEffect(KMConstructEffect(s, e, 1, DefaultMaxIterations),
                               e, KMData(X), "fit"))
    ELSE MlOutcome("fit", "raise", None,
                   [s EXCEPT !.rng = [seed |-> DefaultSeed, pos |-> 0],
                             !.last_call = Call("km", e, "fit", X, FALSE, "raise", <<>>)])

\* the AUTOENCODER branch: input_dim is len(X) of a flat list; a value
\* that cannot be indexed raises before the engine is constructed; a str
\* is indexed, and fit raises after the Xavier draws; an encoding_dim
\* that is no number raises before the first draw
Autoencoder(X, encoding_dim, s) ==
    IF TypeOf(X) \notin {"str", "list"}
    THEN MlOutcome("none", "raise", None, s)
    ELSE IF TypeOf(X) = "list" /\ encoding_dim = "1"
    THEN MlOutcome("fit", "return", AEHandle,
                   AEFitEffect(AEConstructEffect(s, LenOf(X), 1, DefaultMaxEpochs),
                               AEData(X)))
    ELSE MlOutcome("fit", "raise", None,
                   [s EXCEPT !.rng = [seed |-> DefaultSeed,
                                      pos |-> IF encoding_dim = "1"
                                              THEN 2 * LenOf(X) ELSE 0],
                             !.last_call = Call("ae", 1, "fit", X, FALSE, "raise", <<>>)])

MlOps ==
    {"predict", "train", "fit_predict", "get_centroids", "encode", "decode",
     "reconstruct", "reconstruction_error"}
MlConstructors == {"kmeans", "autoencoder"}

\* visitMl_function as a statement, or as the right side of an assignment
\* to target: both arguments are evaluated first (get_centroids has one)
visitMl_function(op, e1, e2, target) ==
    /\ pc = "run"
    /\ executed < MaxSteps
    /\ executed' = executed + 1
    /\ op = "kmeans" => \E e \in KMIds : ~km[e].alive
    /\ op = "autoencoder" => ~ae.alive
    /\ LET r1 == visitBase(e1, variables)
           r2 == IF op = "get_centroids" THEN r1 ELSE visitBase(e2, variables)
       IN IF ~(r1.ok /\ r2.ok)
          THEN /\ Raise("NameError")
               /\ UNCHANGED <<variables, acc, bound, last_ml>>
               /\ UNCHANGED <<evars, pvars>>
          ELSE \E d \in {CASE op = "kmeans" ->
                                Kmeans(CHOOSE e \in KMIds : ~km[e].alive,
                                       r1.val, r2.val, EngState)
                           [] op = "autoencoder" -> Autoencoder(r1.val, r2.val, EngState)
                           [] op = "train" -> Train(r1.val, r2.val, EngState)
                           [] OTHER -> Dispatch(op, r1.val, r2.val, EngState)} :
                /\ d.eng.rng.pos <= MaxDraw
                /\ SetEngState(d.eng)
                /\ UNCHANGED pvars
                /\ last_ml' = [op |-> op, via |-> e1, recv |-> r1.val,
                               invoked |-> d.invoked, outcome |-> d.outcome]
                /\ IF d.outcome = "return"
                   THEN /\ variables' = IF target = NoTarget THEN variables
                                        ELSE [variables EXCEPT ![target] = d.value]
                        /\ acc' = StatementValue(d.value)
                        /\ bound' = IF target = NoTarget THEN bound ELSE NoteBound(target)
                        /\ UNCHANGED <<pc, error, error_raised>>
                   ELSE /\ Raise(IF d.invoked = "none" THEN "ValueError" ELSE "TypeError")
                        /\ UNCHANGED <<variables, acc, bound>>
    /\ UNCHANGED <<functions, in_function, return_value, stack, call_result,
                   result, errors, entry, exited, parsed>>
    /\ last_def' = NoDef

\* ------------------------------------------------------------ expressions
\* The three binary levels of the grammar, as the parser hands them over:
\*   expression : term expr_rest        expr_rest   : (+|-) term expr_rest | empty
\*   term       : factor term_rest      term_rest   : (*|/|%) factor term_rest | empty
\*   factor     : base factor_rest      factor_rest : ^ base factor_rest | empty
\* A rest is written as the sequence of its (operator, operand) pairs.
\* Numbers are exact rationals <<numerator, denominator>>: the int/float
\* distinction and float rounding are left out.  The operands below keep
\* every divisor positive, so the kernel's division-by-zero error does not
\* arise.
MaxOperands == 3     \* bases in one expression
MaxExponent == 9     \* product of the exponents of one factor

NumberBase(n) == [k |-> "num", n |-> n, a |-> ""]
NameBase(a) == [k |-> "var", n |-> 0, a |-> a]
NumberBases == {NumberBase(2), NumberBase(3)}
Bases == NumberBases \cup {NameBase("x"), NameBase("y")}

\* the variables after "x = 5; y = 3;"
NumEnv == [x |-> 5, y |-> 3]

RECURSIVE ExponentProduct(_)
ExponentProduct(rest) ==
    IF rest = <<>> THEN 1 ELSE Head(rest).n * ExponentProduct(Tail(rest))

\* factors with k bases, terms with k bases, expressions with k bases
RECURSIVE ExponentChains(_)
ExponentChains(k) ==
    IF k = 0 THEN {<<>>}
    ELSE {r \in {Append(c, b) : c \in ExponentChains(k - 1), b \in NumberBases} :
            ExponentProduct(r) <= MaxExponent}

FactorsOf(k) == {[base |-> b, rest |-> r] : b \in Bases, r \in ExponentChains(k - 1)}

RECURSIVE TermsOf(_)
TermsOf(k) ==
    {[factor |-> f, rest |-> <<>>] : f \in FactorsOf(k)}
    \cup UNION {{[t EXCEPT !.rest = Append(@, [op |-> op, factor |-> f])] :
                    t \in TermsOf(j), op \in {"*", "/", "%"}, f \in FactorsOf(k - j)} :
                j \in 1..(k - 1)}

RECURSIVE ExpressionsOf(_)
ExpressionsOf(k) ==
    {[term |-> t, rest |-> <<>>] : t \in TermsOf(k)}
    \cup UNION {{[e EXCEPT !.rest = Append(@, [op |-> op, term |-> t])] :
                    e \in ExpressionsOf(j), op \in {"+", "-"}, t \in TermsOf(k - j)} :
                j \in 1..(k - 1)}

Expressions == UNION {ExpressionsOf(k) : k \in 1..MaxOperands}

\* the Arithmetic Kernel on numbers
RECURSIVE IntPower(_, _)
IntPower(b, k) == IF k = 0 THEN 1 ELSE b * IntPower(b, k - 1)

Add(a, b) == Rat(a[1] * b[2] + b[1] * a[2], a[2] * b[2])
Subtract(a, b) == Rat(a[1] * b[2] - b[1] * a[2], a[2] * b[2])
Multiply(a, b) == Rat(a[1] * b[1], a[2] * b[2])
Divide(a, b) == Rat(a[1] * b[2], a[2] * b[1])
Modulo(a, b) ==
    Subtract(a, Multiply(b, <<(a[1] * b[2]) \div (a[2] * b[1]), 1>>))
PowerOf(a, b) == Rat(IntPower(a[1], b[1]), IntPower(a[2], b[1]))

\* a value together with the bases visited to compute it, in visiting order
Visited(val, seen) == [val |-> val, seen |-> seen]

\* visitBase on a NUMBER or an ID
visitNumber(b, env) ==
    Visited(IF b.k = "var" THEN <<env[b.a], 1>> ELSE <<b.n, 1>>, <<b>>)

\* a factor_rest that evaluates the chain to its right first
RECURSIVE visit_factor_restRightFirst(_, _, _)
visit_factor_restRightFirst(rest, left, env) ==
    IF rest = <<>> THEN left
    ELSE LET right == visit_factor_restRightFirst(Tail(rest), visitNumber(Head(rest), env), env)
         IN Visited(PowerOf(left.val, right.val), left.seen \o right.seen)

\* visit_factor_rest
RECURSIVE visit_factor_rest(_, _, _)
visit_factor_rest(rest, left, env) ==
    IF rest = <<>> THEN left
    ELSE LET right_value == visitNumber(Head(rest), env)
             value == Visited(PowerOf(left.val, right_value.val),
                               left.seen \o right_value.seen)
         IN visit_factor_rest(Tail(rest), value, env)

\* visitFactor
visitFactor(f, env) == visit_factor_rest(f.rest, visitNumber(f.base, env), env)

\* visit_term_rest
RECURSIVE visit_term_rest(_, _, _)
visit_term_rest(rest, left, env) ==
    IF rest = <<>> THEN left
    ELSE LET right_value == visitFactor(Head(rest).factor, env)
             op == Head(rest).op
             value == Visited(CASE op = "*" -> Multiply(left.val, right_value.val)
                                 [] op = "/" -> Divide(left.val, right_value.val)
                                 [] op = "%" -> Modulo(left.val, right_value.val),
                               left.seen \o right_value.seen)
         IN visit_term_rest(Tail(rest), value, env)

\* visitTerm
visitTerm(t, env) == visit_term_rest(t.rest, visitFactor(t.factor, env), env)

\* visit_expr_rest
RECURSIVE visit_expr_rest(_, _, _)
visit_expr_rest(rest, left, env) ==
    IF rest = <<>> THEN left
    ELSE LET right_value == visitTerm(Head(rest).term, env)
             op == Head(rest).op
             value == Visited(CASE op = "+" -> Add(left.val, right_value.val)
                                 [] op = "-" -> Subtract(left.val, right_value.val),
                               left.seen \o right_value.seen)
         IN visit_expr_rest(Tail(rest), value, env)

\* visitExpression
visitExpression(e, env) == visit_expr_rest(e.rest, visitTerm(e.term, env), env)

\* ------------------------------------------------------------ is_truthy
\* Python values by class: a bool, an int (num), a float (num halves), a
\* str (its characters), a list (its items), None, or an object of another
\* class.
MaxInt == 2      \* ints are -MaxInt..MaxInt, floats are halves of them
MaxLen == 2      \* characters of a str, items of a list

PyValue(class, num, items) == [class |-> class, num |-> num, items |-> items]

RECURSIVE SeqsUpTo(_, _)
SeqsUpTo(S, n) ==
    IF n = 0 THEN {<<>>}
    ELSE SeqsUpTo(S, n - 1) \cup {Append(q, x) : q \in SeqsUpTo(S, n - 1), x \in S}

Characters == {"a", "0"}
OtherClasses == {"KMeansEngine", "AutoencoderEngine", "dict"}

PyAtoms ==
    {PyValue("bool", b, <<>>) : b \in {0, 1}}
    \cup {PyValue(c, n, <<>>) : c \in {"int", "float"}, n \in (-MaxInt)..MaxInt}
    \cup {PyValue("str", 0, q) : q \in SeqsUpTo(Characters, MaxLen)}
    \cup {PyValue("NoneType", 0, <<>>)}
    \cup {PyValue(c, 0, <<>>) : c \in OtherClasses}

PyValues == PyAtoms \cup {PyValue("list", 0, q) : q \in SeqsUpTo(PyAtoms, MaxLen)}

\* isinstance: bool is a subclass of int
IsInstance(value, classes) ==
    \/ value.class \in classes
    \/ value.class = "bool" /\ "int" \in classes

\* is_truthy without its list branch
is_truthyNoListRule(value) ==
    IF IsInstance(value, {"bool"}) THEN value.num = 1
    ELSE IF IsInstance(value, {"int", "float"}) THEN value.num # 0
    ELSE IF IsInstance(value, {"str"}) THEN Len(value.items) > 0
    ELSE value.class # "NoneType"

\* is_truthy
is_truthy(value) ==
    IF IsInstance(value, {"bool"}) THEN value.num = 1
    ELSE IF IsInstance(value, {"int", "float"}) THEN value.num # 0
    ELSE IF IsInstance(value, {"str"}) THEN Len(value.items) > 0
    ELSE IF IsInstance(value, {"list"}) THEN Len(value.items) > 0
    ELSE value.class # "NoneType"

\* ------------------------------------------------------------ bracketed literals
\*   list_or_matrix_content : list_or_matrix_row list_or_matrix_content_rest | empty
\*   list_or_matrix_row     : [ expression_list ] | expression
\* A row is written with the values its expressions evaluate to.
MaxElems == 2    \* rows of one bracketed literal
MaxRow == 2      \* expressions of one [ expression_list ] row

RowAtoms == {PyValue("int", 1, <<>>), PyValue("int", 2, <<>>), PyValue("str", 0, <<"a">>)}

\* what one expression of a literal can evaluate to
ElementValues ==
    RowAtoms
    \cup {PyValue("float", 1, <<>>), PyValue("bool", 1, <<>>),
          PyValue("NoneType", 0, <<>>), PyValue("KMeansEngine", 0, <<>>)}
    \cup {PyValue("list", 0, q) :
            q \in {<<>>, <<PyValue("int", 1, <<>>)>>,
                   <<PyValue("int", 1, <<>>), PyValue("int", 2, <<>>)>>}}

Rows ==
    {[alt |-> "expression_list", vals |-> q] : q \in SeqsUpTo(RowAtoms, MaxRow) \ {<<>>}}
    \cup {[alt |-> "expression", vals |-> <<v>>] : v \in ElementValues}

Contents == SeqsUpTo(Rows, MaxElems)

\* the outcome of visiting a literal, with the number of calls made to the
\* Matrix Kernel's constructor
ListResult(outcome, value, created) ==
    [outcome |-> outcome, value |-> value, created |-> created]

\* MatrixEngine.create_matrix: rows of equal length > 0, all numeric
create_matrix(rows) ==
    IF /\ \A i \in 1..Len(rows) :
            /\ rows[i].class = "list"
            /\ Len(rows[i].items) = Len(rows[1].items)
            /\ Len(rows[i].items) > 0
            /\ \A j \in 1..Len(rows[i].items) : rows[i].items[j].class \in {"int", "float"}
    THEN [outcome |-> "return", value |-> PyValue("Matrix", 0, rows)]
    ELSE [outcome |-> "raise", value |-> PyValue("ValueError", 0, <<>>)]

\* visitList_or_matrix_row; visitExpression_list builds the list of a row
visitList_or_matrix_row(row) ==
    IF row.alt = "expression_list" THEN PyValue("list", 0, row.vals)
    ELSE row.vals[1]

\* visit_list_or_matrix_content_rest
RECURSIVE visit_list_or_matrix_content_rest(_)
visit_list_or_matrix_content_rest(rest) ==
    IF rest = <<>> THEN <<>>
    ELSE <<visitList_or_matrix_row(Head(rest))>>
         \o visit_list_or_matrix_content_rest(Tail(rest))

\* a detection that makes a matrix as soon as one element is a list
visitList_or_matrix_contentAnyList(content) ==
    IF content = <<>> THEN ListResult("return", PyValue("list", 0, <<>>), 0)
    ELSE LET elements == <<visitList_or_matrix_row(Head(content))>>
                         \o visit_list_or_matrix_content_rest(Tail(content))
         IN IF \E i \in 1..Len(elements) : IsInstance(elements[i], {"list"})
            THEN LET m == create_matrix(elements)
                 IN ListResult(m.outcome, m.value, 1)
            ELSE ListResult("return", PyValue("list", 0, elements), 0)

\* visitList_or_matrix_content
visitList_or_matrix_content(content) ==
    IF content = <<>> THEN ListResult("return", PyValue("list", 0, <<>>), 0)
    ELSE LET elements == <<visitList_or_matrix_row(Head(content))>>
                         \o visit_list_or_matrix_content_rest(Tail(content))
         IN IF \A i \in 1..Len(elements) :
                  IsInstance(elements[i], {"int", "float", "str", "bool"})
            THEN ListResult("return", PyValue("list", 0, elements), 0)
            ELSE IF \A i \in 1..Len(elements) : IsInstance(elements[i], {"list"})
            THEN LET m == create_matrix(elements)
                 IN ListResult(m.outcome, m.value, 1)
            ELSE ListResult("return", PyValue("list", 0, elements), 0)

\* ------------------------------------------------------------ statement lists
\* Programs as trees of statements, and the visitor methods that run them
\* as operators from the interpreter's fields (st) to the fields afterwards
\* and the value returned.  st.trace is a history of what was visited, each
\* entry with the fields at that time.
\*   statement_list : statement statement_list | empty
\*   for_loop       : for ( assignment ; condition ; assignment ) { statement_list }
\*   function_def   : def ID ( param_list ) { statement_list return_stmt }
MaxStmts == 3    \* statements of a top-level statement list
MaxLoop == 3     \* the number a loop counter is compared with

PyInt(n) == PyValue("int", n, <<>>)
PyNone == PyValue("NoneType", 0, <<>>)
Missing == PyValue("<missing>", 0, <<>>)

NumberExpr(n) == [k |-> "NUMBER", n |-> n, a |-> "", args |-> <<>>]
NameExpr(a) == [k |-> "ID", n |-> 0, a |-> a, args |-> <<>>]
PlusExpr(a, n) == [k |-> "+", n |-> n, a |-> a, args |-> <<>>]
CallExpr(f, args) == [k |-> "call", n |-> 0, a |-> f, args |-> args]

Condition(left, op, right) == [left |-> left, op |-> op, right |-> right]
Assignment(name, expr) == [name |-> name, expr |-> expr]

Statement(k, name, expr, cond, body, orelse, params, post) ==
    [k |-> k, id |-> <<>>, name |-> name, expr |-> expr, cond |-> cond, body |-> body,
     orelse |-> orelse, params |-> params, post |-> post]

NoCondition == Condition(NumberExpr(0), "", NumberExpr(0))
NoAssignment == Assignment("", NumberExpr(0))

AssignmentStmt(name, expr) ==
    Statement("assignment", name, expr, NoCondition, <<>>, <<>>, <<>>, NoAssignment)
ExpressionStmt(expr) ==
    Statement("expression", "", expr, NoCondition, <<>>, <<>>, <<>>, NoAssignment)
CallStmt(f, args) ==
    Statement("function_call", "", CallExpr(f, args), NoCondition, <<>>, <<>>, <<>>,
              NoAssignment)
ConditionalStmt(cond, body, orelse) ==
    Statement("conditional", "", NumberExpr(0), cond, body, orelse, <<>>, NoAssignment)
WhileStmt(cond, body) ==
    Statement("while_loop", "", NumberExpr(0), cond, body, <<>>, <<>>, NoAssignment)
ForStmt(init, cond, post, body) ==
    Statement("for_loop", init.name, init.expr, cond, body, <<>>, <<>>, post)
DefStmt(name, params, body, return_expr) ==
    Statement("function_def", name, return_expr, NoCondition, body, <<>>, params,
              NoAssignment)

\* every statement is given its place in the tree: its index in its list,
\* after the place of the statement the list belongs to
RECURSIVE WithIds(_, _)
WithIds(list, prefix) ==
    [i \in 1..Len(list) |->
        [list[i] EXCEPT !.id = prefix \o <<i>>,
                        !.body = WithIds(@, prefix \o <<i, 1>>),
                        !.orelse = WithIds(@, prefix \o <<i, 2>>)]]

\* self.functions[func_name]
FunctionRecord(id, params, body, return_stmt) ==
    [defined |-> TRUE, id |-> id, params |-> params, body |-> body,
     return_stmt |-> return_stmt]
NoFunction == [FunctionRecord(<<>>, <<>>, <<>>, NumberExpr(0)) EXCEPT !.defined = FALSE]

\* the fields of a DSLInterpreter after __init__
InitialState ==
    [variables |-> [n \in Names |-> Missing],
     functions |-> [f \in FuncNames |-> NoFunction],
     in_function |-> FALSE,
     return_value |-> PyNone,
     error |-> "",
     trace |-> <<>>]

Visit(st, val) == [st |-> st, val |-> val]

RaisedIn(st, msg) == Visit([st EXCEPT !.error = msg], PyNone)

Log(st, ev, id, val) ==
    [st EXCEPT !.trace = Append(@, [ev |-> ev, id |-> id, val |-> val,
                                    variables |-> st.variables,
                                    return_value |-> st.return_value,
                                    in_function |-> st.in_function])]

\* the Arithmetic Kernel on the values of these programs
ArithmeticAdd(a, b) == PyInt(a.num + b.num)
ArithmeticCompare(a, b, op) ==
    PyValue("bool", IF op = "<" /\ a.num < b.num THEN 1 ELSE 0, <<>>)

\* a test for a pending return that forgets to look at in_function
PendingReturnAnywhere(st) == st.return_value # PyNone

\* "if self.return_value is not None and self.in_function"
PendingReturn(st) == st.return_value # PyNone /\ st.in_function

\* a statement list that yields what the rest of the list yielded
RestOnly(rest_result, value) == rest_result

\* "return rest_result if rest_result is not None else result"
RestOrFirst(rest_result, value) == IF rest_result # PyNone THEN rest_result ELSE value

\* a loop that keeps the result of every body execution
CollectEvery(results, value) == Append(results, value)

\* "if result is not None: results.append(result)"
Collect(results, value) == IF value # PyNone THEN Append(results, value) ELSE results

\* "return results[-1] if results else None"
LoopResult(results) == IF results # <<>> THEN results[Len(results)] ELSE PyNone

\* a finally block that leaves self.return_value as the callee set it
RestoreStateKeepsReturn(frame, st) ==
    LET fin == Finally(frame, [variables |-> st.variables,
                               in_function |-> st.in_function,
                               return_value |-> st.return_value]) IN
    [st EXCEPT !.variables = fin.variables,
               !.in_function = fin.in_function]

\* the finally block of call_user_function
RestoreState(frame, st) ==
    LET fin == Finally(frame, [variables |-> st.variables,
                               in_function |-> st.in_function,
                               return_value |-> st.return_value]) IN
    [st EXCEPT !.variables = fin.variables,
               !.in_function = fin.in_function,
               !.return_value = fin.return_value]

RECURSIVE visitStatement_list(_, _)
RECURSIVE visitStatement(_, _)
RECURSIVE visitExpressionIn(_, _)
RECURSIVE visitArgs(_, _, _)
RECURSIVE call_user_function(_, _, _)
RECURSIVE LoopIterations(_, _, _)

\* visitArg_list: the values of the arguments, left to right
visitArgs(args, st, values) ==
    IF args = <<>> THEN Visit(st, values)
    ELSE CHOOSE out \in
            {IF r.st.error # "" THEN r
             ELSE visitArgs(Tail(args), r.st, Append(values, r.val)) :
                r \in {visitExpressionIn(Head(args), st)}} : TRUE

\* visitExpression down to visitBase on NUMBER, ID, ID + NUMBER and a call
\* of a user function
visitExpressionIn(e, st) ==
    CASE e.k = "NUMBER" -> Visit(st, PyInt(e.n))
      [] e.k = "ID" ->
            IF st.variables[e.a] = Missing THEN RaisedIn(st, "NameError")
            ELSE Visit(st, st.variables[e.a])
      [] e.k = "+" ->
            IF st.variables[e.a] = Missing THEN RaisedIn(st, "NameError")
            ELSE IF st.variables[e.a].class # "int" THEN RaisedIn(st, "TypeError")
            ELSE Visit(st, ArithmeticAdd(st.variables[e.a], PyInt(e.n)))
      [] e.k = "call" ->
            CHOOSE out \in
                {IF a.st.error # "" THEN RaisedIn(a.st, a.st.error)
                 ELSE call_user_function(e.a, a.val, a.st) :
                    a \in {visitArgs(e.args, st, <<>>)}} : TRUE

\* visitCondition: a relational operation or a single expression
visitCondition(c, st) ==
    CHOOSE out \in
        {IF l.st.error # "" \/ c.op = "" THEN l
         ELSE CHOOSE o \in
                {IF r.st.error # "" THEN r
                 ELSE Visit(r.st, ArithmeticCompare(l.val, r.val, c.op)) :
                    r \in {visitExpressionIn(c.right, l.st)}} : TRUE :
            l \in {visitExpressionIn(c.left, st)}} : TRUE

\* visitAssignment: self.variables[var_name] = value; return value
visitAssignmentIn(a, st) ==
    CHOOSE out \in
        {IF r.st.error # "" THEN r
         ELSE Visit([r.st EXCEPT !.variables =
                                   [n \in Names |-> IF n = a.name THEN r.val ELSE @[n]]],
                    r.val) :
            r \in {visitExpressionIn(a.expr, st)}} : TRUE

\* visitFunction_def: the definition is stored, the statement yields None
visitFunction_defIn(s, st) ==
    Visit([st EXCEPT !.functions[s.name] = FunctionRecord(s.id, s.params, s.body, s.expr)],
          PyNone)

\* visitReturn_stmt
visitReturn_stmt(func_def, st) ==
    CHOOSE out \in
        {IF r.st.error # "" THEN r
         ELSE Visit(Log([r.st EXCEPT !.return_value = r.val], "return", func_def.id, r.val),
                    r.val) :
            r \in {visitExpressionIn(func_def.return_stmt, st)}} : TRUE

\* call_user_function
call_user_function(func_name, args, st) ==
    LET func_def == st.functions[func_name] IN
    IF ~func_def.defined THEN RaisedIn(st, "NameError")
    ELSE IF Len(args) # Len(func_def.params) THEN RaisedIn(st, "ValueError")
    ELSE CHOOSE out \in
            {CHOOSE o \in
                {Visit(Log(RestoreState(frame, r.st), "exit", func_def.id, r.val), r.val) :
                    r \in {IF b.st.error # "" THEN b
                           ELSE visitReturn_stmt(func_def, b.st)}} : TRUE :
                frame \in {[old_variables |-> st.variables,
                            old_in_function |-> st.in_function,
                            old_return_value |-> st.return_value]},
                b \in {visitStatement_list(
                         func_def.body,
                         Log([st EXCEPT !.in_function = TRUE,
                                        !.return_value = PyNone,
                                        !.variables = BindArguments(st.variables,
                                                                    func_def.params, args)],
                             "call", func_def.id, PyNone))}} : TRUE

\* visitConditional
visitConditional(s, st) ==
    CHOOSE out \in
        {IF c.st.error # "" THEN c
         ELSE IF is_truthy(c.val)
         THEN visitStatement_list(s.body, Log(c.st, "if", s.id, c.val))
         ELSE IF s.orelse # <<>>
         THEN visitStatement_list(s.orelse, Log(c.st, "if", s.id, c.val))
         ELSE Visit(Log(c.st, "if", s.id, c.val), PyNone) :
            c \in {visitCondition(s.cond, st)}} : TRUE

\* the "while True" of visitFor_loop and visitWhile_loop: the condition,
\* the body and, in a for loop, the second assignment
LoopIterations(s, st, results) ==
    CHOOSE out \in
        {IF c.st.error # "" THEN c
         ELSE IF ~is_truthy(c.val)
         THEN Visit(Log(c.st, "condition", s.id, c.val), LoopResult(results))
         ELSE CHOOSE o \in
                {IF b.st.error # "" THEN b
                 ELSE IF s.k = "while_loop"
                 THEN LoopIterations(s, Log(b.st, "body_done", s.id, b.val),
                                     Collect(results, b.val))
                 ELSE CHOOSE o2 \in
                        {IF p.st.error # "" THEN p
                         ELSE LoopIterations(s, Log(p.st, "post", s.id, p.val),
                                             Collect(results, b.val)) :
                            p \in {visitAssignmentIn(s.post,
                                                     Log(b.st, "body_done", s.id, b.val))}} : TRUE :
                    b \in {visitStatement_list(
                             s.body,
                             Log(Log(c.st, "condition", s.id, c.val), "body", s.id, PyNone))}} : TRUE :
            c \in {visitCondition(s.cond, st)}} : TRUE

\* a for loop that runs its first assignment twice
visitFor_loopInitTwice(s, st) ==
    CHOOSE out \in
        {IF i.st.error # "" THEN i
         ELSE CHOOSE o \in
                {IF j.st.error # "" THEN j
                 ELSE LoopIterations(s, Log(j.st, "init", s.id, j.val), <<>>) :
                    j \in {visitAssignmentIn(Assignment(s.name, s.expr),
                                             Log(i.st, "init", s.id, i.val))}} : TRUE :
            i \in {visitAssignmentIn(Assignment(s.name, s.expr), st)}} : TRUE

\* visitFor_loop
visitFor_loop(s, st) ==
    CHOOSE out \in
        {IF i.st.error # "" THEN i
         ELSE LoopIterations(s, Log(i.st, "init", s.id, i.val), <<>>) :
            i \in {visitAssignmentIn(Assignment(s.name, s.expr), st)}} : TRUE

\* visitWhile_loop
visitWhile_loop(s, st) == LoopIterations(s, st, <<>>)

\* visitStatement
visitStatement(s, st) ==
    CHOOSE out \in
        {IF r.st.error # "" THEN r ELSE Visit(Log(r.st, "done", s.id, r.val), r.val) :
            r \in {LET st1 == Log(st, "statement", s.id, PyNone) IN
                   CASE s.k = "assignment" -> visitAssignmentIn(Assignment(s.name, s.expr), st1)
                     [] s.k = "conditional" -> visitConditional(s, st1)
                     [] s.k = "for_loop" -> visitFor_loop(s, st1)
                     [] s.k = "while_loop" -> visitWhile_loop(s, st1)
                     [] s.k = "function_def" -> visitFunction_defIn(s, st1)
                     [] OTHER -> visitExpressionIn(s.expr, st1)}} : TRUE

\* visitStatement_list
visitStatement_list(list, st) ==
    IF list = <<>> THEN Visit(st, PyNone)
    ELSE CHOOSE out \in
            {IF r.st.error # "" THEN r
             ELSE IF PendingReturn(r.st) THEN Visit(r.st, r.st.return_value)
             ELSE CHOOSE o \in
                    {IF rest_result.st.error # "" THEN rest_result
                     ELSE Visit(rest_result.st, RestOrFirst(rest_result.val, r.val)) :
                        rest_result \in {visitStatement_list(Tail(list), r.st)}} : TRUE :
                r \in {visitStatement(Head(list), st)}} : TRUE

\* visitProgram
visitProgram(list) == visitStatement_list(list, InitialState)

\* the statements programs are made of
\*   x = 0        y = x + 1        y        if (x < 1) { y = 2 }
\*   for (x = 0; x < MaxLoop; x = x + 1) { if (x < 1) { x } }
\*   for (y = x; y < 2; y = y + 1) { x = y  y }
\*   while (x < 2) { if (x < 1) { y = 5 }  for (x = x + 1; x < 0; x = x) { } }
\*   def g(x) { if (x < 1) { y = g(x + 1) }  x = x + 1  return x }
\*   def f() { y = g(0)  x = 7  return g(x) }
\*   y = f()      g(0)
Less(a, n) == Condition(NameExpr(a), "<", NumberExpr(n))

StatementPool ==
    {AssignmentStmt("x", NumberExpr(0)),
     AssignmentStmt("y", PlusExpr("x", 1)),
     ExpressionStmt(NameExpr("y")),
     ConditionalStmt(Less("x", 1), <<AssignmentStmt("y", NumberExpr(2))>>, <<>>),
     ForStmt(Assignment("x", NumberExpr(0)), Less("x", MaxLoop),
             Assignment("x", PlusExpr("x", 1)),
             <<ConditionalStmt(Less("x", 1), <<ExpressionStmt(NameExpr("x"))>>, <<>>)>>),
     ForStmt(Assignment("y", NameExpr("x")), Less("y", 2),
             Assignment("y", PlusExpr("y", 1)),
             <<AssignmentStmt("x", NameExpr("y")), ExpressionStmt(NameExpr("y"))>>),
     WhileStmt(Less("x", 2),
               <<ConditionalStmt(Less("x", 1), <<AssignmentStmt("y", NumberExpr(5))>>, <<>>),
                 ForStmt(Assignment("x", PlusExpr("x", 1)), Less("x", 0),
                         Assignment("x", NameExpr("x")), <<>>)>>),
     DefStmt("g", <<"x">>,
             <<ConditionalStmt(Less("x", 1),
                               <<AssignmentStmt("y", CallExpr("g", <<PlusExpr("x", 1)>>))>>,
                               <<>>),
               AssignmentStmt("x", PlusExpr("x", 1))>>,
             NameExpr("x")),
     DefStmt("f", <<>>,
             <<AssignmentStmt("y", CallExpr("g", <<NumberExpr(0)>>)),
               AssignmentStmt("x", NumberExpr(7))>>,
             CallExpr("g", <<NameExpr("x")>>)),
     AssignmentStmt("y", CallExpr("f", <<>>)),
     CallStmt("g", <<NumberExpr(0)>>)}

\* the programs: statement lists of up to MaxStmts statements
Programs == {WithIds(p, <<>>) : p \in SeqsUpTo(StatementPool, MaxStmts)}

\* ------------------------------------------------------------ specifications
EngInit ==
    /\ rng = [seed |-> 0, pos |-> 0]
    /\ km = [e \in KMIds |-> NoKMeans]
    /\ ae = NoAutoencoder
    /\ last_call = NoCall
    /\ km_data = [e \in KMIds |-> <<>>]
    /\ first_fits = {}

PureInit ==
    /\ fn_in = <<>>
    /\ fn_out = <<>>
    /\ handed = NoHanded

Init == InterpInit /\ EngInit /\ PureInit

NextEng ==
    \/ \E e \in KMIds, k \in KMClusters, mi \in KMMaxIterations : KMConstruct(e, k, mi)
    \/ \E e \in KMIds, X \in KMInputs : KMFit(e, X)
    \/ \E e \in KMIds, X \in KMInputs : KMFitPredict(e, X)
    \/ \E e \in KMIds, X \in KMInputs : KMPredict(e, X)
    \/ \E e \in KMIds : KMGetCentroids(e)
    \/ \E input_dim \in AEInputDims, encoding_dim \in AEEncodingDims,
          max_epochs \in AEMaxEpochs :
            AEConstruct(input_dim, encoding_dim, max_epochs)
    \/ \E X \in AEInputs : AEFit(X)
    \/ \E X \in AEInputs : AEEncode(X)
    \/ \E X \in AEInputs : AEDecode(X)
    \/ \E X \in AEInputs : AEReconstruct(X)
    \/ \E X \in AEInputs : AEReconstructionError(X)

SpecEng == Init /\ [][NextEng]_vars


Next ==
    \/ \E ok \in BOOLEAN : ParseProgram(ok)
    \/ \E n \in Names, e \in ScalarExprs : visitAssignment(n, e)
    \/ \E f \in FuncNames, d \in FuncDefs :
          visitFunction_def(f, d.params, d.body, d.return_stmt)
    \/ \E f \in FuncNames, args \in ArgLists(ScalarExprs), t \in Names \cup {NoTarget} :
          CallEnter(f, args, t)
    \/ CallReturn
    \/ AfterCall
    \/ \E k \in {"plot", "scatter", "histogram"}, e1 \in ScalarExprs, ok \in BOOLEAN :
          \E e2 \in IF k = "scatter" THEN ScalarExprs ELSE {e1} :
             visitPlot_function(k, e1, e2, ok)
    \/ \E op \in {"transpose", "matmult"}, e1 \in ScalarExprs, ok \in BOOLEAN :
          \E e2 \in IF op = "matmult" THEN ScalarExprs ELSE {e1} :
             visitMatrix_operation(op, e1, e2, ok)
    \/ Unwind
    \/ InterpretCatch
    \/ InterpretReturn

Spec == Init /\ [][Next]_vars

\* programs of assignments and machine-learning calls
NextML ==
    \/ \E ok \in BOOLEAN : ParseProgram(ok)
    \/ \E n \in Names, e \in MlExprs : visitAssignment(n, e)
    \/ \E op \in MlOps, e1, e2 \in MlExprs : visitMl_function(op, e1, e2, NoTarget)
    \/ \E op \in MlConstructors, e1, e2 \in MlExprs, t \in Names \cup {NoTarget} :
          visitMl_function(op, e1, e2, t)
    \/ InterpretCatch
    \/ InterpretReturn

SpecML == Init /\ [][NextML]_vars

\* a caller that keeps and changes the lists get_centroids returns
NextCopy ==
    \/ \E e \in KMIds, k \in KMClusters, mi \in KMMaxIterations : KMConstruct(e, k, mi)
    \/ \E e \in KMIds, X \in KMInputs : FitKept(e, X)
    \/ \E e \in KMIds : KeepCentroids(e)
    \/ \E e \in KMIds : KMGetCentroids(e)
    \/ \E i \in 1..Len(handed.value), v \in MutationValues : MutateRow(i, v)
    \/ \E i \in 1..Len(handed.value), v \in MutationValues : MutateOuter(i, v)

SpecCopy == Init /\ [][NextCopy]_vars

\* fit is handed an engine and data
FitInit ==
    /\ InterpInit
    /\ EngInit
    /\ fn_in \in {c \in FitCalls : Len(c.draws) = FitDraws(c.eng, c.X)}
    /\ fn_out = <<>>
    /\ handed = NoHanded

\* engine.fit(X)
EvalFit ==
    /\ fn_out = <<>>
    /\ fn_out' = <<Fit(fn_in.eng, fn_in.X, fn_in.draws)>>
    /\ UNCHANGED <<fn_in, handed, ivars, evars>>

NextFit == EvalFit

SpecFit == FitInit /\ [][NextFit]_vars

\* the interpreter is handed a program
ProgInit ==
    /\ InterpInit
    /\ EngInit
    /\ fn_in \in Programs
    /\ fn_out = <<>>
    /\ handed = NoHanded

\* interpreter.visit(tree)
EvalProgram ==
    /\ fn_out = <<>>
    /\ fn_out' = <<visitProgram(fn_in)>>
    /\ UNCHANGED <<fn_in, handed, ivars, evars>>

NextProg == EvalProgram

SpecProg == ProgInit /\ [][NextProg]_vars

\* the evaluator is handed an expression
ExprInit ==
    /\ InterpInit
    /\ EngInit
    /\ fn_in \in Expressions
    /\ fn_out = <<>>
    /\ handed = NoHanded

\* self.visit(ctx.expression())
EvalExpression ==
    /\ fn_out = <<>>
    /\ fn_out' = <<visitExpression(fn_in, NumEnv)>>
    /\ UNCHANGED <<fn_in, handed, ivars, evars>>

NextExpr == EvalExpression

SpecExpr == ExprInit /\ [][NextExpr]_vars

\* is_truthy is handed a value
TruthyInit ==
    /\ InterpInit
    /\ EngInit
    /\ fn_in \in PyValues
    /\ fn_out = <<>>
    /\ handed = NoHanded

\* self.is_truthy(condition_value)
EvalTruthy ==
    /\ fn_out = <<>>
    /\ fn_out' = <<is_truthy(fn_in)>>
    /\ UNCHANGED <<fn_in, handed, ivars, evars>>

NextTruthy == EvalTruthy

SpecTruthy == TruthyInit /\ [][NextTruthy]_vars

\* the evaluator is handed the content of a bracketed literal
ListInit ==
    /\ InterpInit
    /\ EngInit
    /\ fn_in \in Contents
    /\ fn_out = <<>>
    /\ handed = NoHanded

\* self.visit(ctx.list_or_matrix_content())
EvalList ==
    /\ fn_out = <<>>
    /\ fn_out' = <<visitList_or_matrix_content(fn_in)>>
    /\ UNCHANGED <<fn_in, handed, ivars, evars>>

NextList == EvalList

SpecList == ListInit /\ [][NextList]_vars

\* ------------------------------------------------------------------ properties
\* C1: when call_user_function returns, every name the callee bound (a
\* parameter or the target of an assignment in the body) that was bound in
\* the caller has the value it had immediately before the call.
C1_CallIsolation ==
    pc = "returned" =>
        \A n \in exited.bound :
            exited.entry.variables[n] # Unbound =>
                variables[n] = exited.entry.variables[n]

\* a call has returned whose body left a caller-bound name with another value
C1_Witness ==
    /\ pc = "returned"
    /\ \E n \in exited.bound :
          /\ exited.entry.variables[n] # Unbound
          /\ exited.callee[n] # exited.entry.variables[n]

C3_StateRestored ==
    ((pc = "returned" /\ exited.kind = "return")
        \/ (pc = "raising" /\ exited.kind = "error"))
    => CurrentState = exited.entry

\* a recursive activation at depth two was left by an exception after it
\* had changed the variables
C3_Witness ==
    /\ pc = "raising"
    /\ exited.kind = "error"
    /\ exited.depth = 2
    /\ exited.recursive
    /\ exited.callee # exited.entry.variables

C11_ArityError ==
    /\ [](\A i \in 1..Len(entry) : Len(entry[i].args) = Len(entry[i].params))
    /\ [][(pc = "run" /\ pc' = "raising" /\ error' = "ValueError")
            => /\ variables' = variables
               /\ in_function' = in_function
               /\ return_value' = return_value
               /\ stack' = stack
               /\ bound' = bound
               /\ functions' = functions]_vars

\* an arity error was raised by a call made inside a function body that had
\* already bound a variable
C11_Witness ==
    /\ pc = "raising"
    /\ error = "ValueError"
    /\ stack # <<>>
    /\ in_function
    /\ \E n \in Names : variables[n] # Unbound /\ n \in Head(bound)

\* C12: reading a name that is not bound raises NameError; no activation
\* exists of a function that was not in the function table when it was
\* called; and the step that raises the lookup error leaves the variables
\* and the function table as they were.
C12_LookupErrors ==
    /\ [](\A n \in Names :
            variables[n] = Unbound =>
                visitBase(VarExpr(n), variables) = [ok |-> FALSE, val |-> "NameError"])
    /\ [](\A i \in 1..Len(entry) : entry[i].params # NoFunc.params)
    /\ [][(pc = "run" /\ pc' = "raising" /\ error' = "NameError")
            => /\ variables' = variables
               /\ functions' = functions
               /\ stack' = stack]_vars

\* a lookup error is in flight inside a function body while one name is
\* bound, another is not, and one function name is undefined
C12_Witness ==
    /\ pc = "raising"
    /\ error = "NameError"
    /\ stack # <<>>
    /\ \E n, m \in Names : variables[n] = Unbound /\ variables[m] # Unbound
    /\ \E f, g \in FuncNames : functions[f] = NoFunc /\ functions[g] # NoFunc

\* C13: a fit or fit_predict whose input is empty or has fewer samples
\* than the engine has clusters raises, and the engine (centroids, labels,
\* fitted) is after the call what it was before it.
C13_FitFailureLeavesState ==
    [][\A e \in KMIds :
          (/\ last_call'.kind = "km"
           /\ last_call'.eng = e
           /\ last_call'.op \in {"fit", "fit_predict"}
           /\ Len(last_call'.input[1]) < km[e].n_clusters)
          => /\ last_call'.outcome = "raise"
             /\ last_call'.value = <<>>
             /\ km'[e].centroids = km[e].centroids
             /\ km'[e].labels = km[e].labels
             /\ km'[e].fitted = km[e].fitted]_vars

\* a fitted engine refused to fit a list with too few samples and still
\* has its centroids and labels
C13_Witness ==
    /\ last_call.kind = "km"
    /\ last_call.op = "fit"
    /\ last_call.outcome = "raise"
    /\ last_call.fitted_before
    /\ last_call.input[1] # <<>>
    /\ km[last_call.eng].fitted
    /\ km[last_call.eng].centroids # <<>>
    /\ km[last_call.eng].labels # <<>>

\* C14: at each of the three levels a chain is worth its last operator
\* applied to the value of the chain without its last operand and the value
\* of that operand (so a op1 b op2 c is (a op1 b) op2 c), the bases are
\* visited in source order, and an operand of a looser level is the whole
\* value of the tighter level; 2^3^2 is 64 and x + y * 2 is 11 when x = 5
\* and y = 3.
C14_LeftAssociative ==
    fn_out # <<>> =>
        LET Front(q) == SubSeq(q, 1, Len(q) - 1)
            Last(q) == q[Len(q)]
            FactorOK(f) ==
                f.rest # <<>> =>
                    LET init == visitFactor([f EXCEPT !.rest = Front(@)], NumEnv)
                        last == visitNumber(Last(f.rest), NumEnv)
                    IN visitFactor(f, NumEnv) =
                          Visited(PowerOf(init.val, last.val), init.seen \o last.seen)
            TermOK(t) ==
                /\ FactorOK(t.factor)
                /\ \A i \in 1..Len(t.rest) : FactorOK(t.rest[i].factor)
                /\ t.rest # <<>> =>
                      LET init == visitTerm([t EXCEPT !.rest = Front(@)], NumEnv)
                          last == visitFactor(Last(t.rest).factor, NumEnv)
                          op == Last(t.rest).op
                      IN visitTerm(t, NumEnv) =
                            Visited(CASE op = "*" -> Multiply(init.val, last.val)
                                      [] op = "/" -> Divide(init.val, last.val)
                                      [] op = "%" -> Modulo(init.val, last.val),
                                    init.seen \o last.seen)
            e == fn_in
        IN /\ TermOK(e.term)
           /\ \A i \in 1..Len(e.rest) : TermOK(e.rest[i].term)
           /\ fn_out[1] =
                 IF e.rest = <<>> THEN visitTerm(e.term, NumEnv)
                 ELSE LET init == visitExpression([e EXCEPT !.rest = Front(@)], NumEnv)
                          last == visitTerm(Last(e.rest).term, NumEnv)
                      IN Visited(IF Last(e.rest).op = "+"
                                 THEN Add(init.val, last.val)
                                 ELSE Subtract(init.val, last.val),
                                 init.seen \o last.seen)
           /\ e = [term |-> [factor |-> [base |-> NumberBase(2),
                                         rest |-> <<NumberBase(3), NumberBase(2)>>],
                             rest |-> <<>>],
                   rest |-> <<>>]
                => fn_out[1].val = <<64, 1>>
           /\ e = [term |-> [factor |-> [base |-> NameBase("x"), rest |-> <<>>],
                             rest |-> <<>>],
                   rest |-> <<[op |-> "+",
                               term |-> [factor |-> [base |-> NameBase("y"), rest |-> <<>>],
                                         rest |-> <<[op |-> "*",
                                                     factor |-> [base |-> NumberBase(2),
                                                                 rest |-> <<>>]]>>]]>>]
                => fn_out[1] = Visited(<<11, 1>>,
                                       <<NameBase("x"), NameBase("y"), NumberBase(2)>>)

\* 2^3^2 has been evaluated
C14_Witness ==
    /\ fn_out # <<>>
    /\ fn_in.term.factor.base = NumberBase(2)
    /\ fn_in.term.factor.rest = <<NumberBase(3), NumberBase(2)>>
    /\ fn_in.term.rest = <<>>
    /\ fn_in.rest = <<>>
    /\ fn_out[1].val = <<64, 1>>

\* C15: is_truthy gives a bool itself, value # 0 for an int or a float,
\* non-emptiness for a str or a list, and for any other value whether it is
\* not None.
C15_IsTruthy ==
    fn_out # <<>> =>
        fn_out[1] =
            CASE fn_in.class = "bool" -> fn_in.num = 1
              [] fn_in.class \in {"int", "float"} -> fn_in.num # 0
              [] fn_in.class \in {"str", "list"} -> fn_in.items # <<>>
              [] OTHER -> fn_in # PyValue("NoneType", 0, <<>>)

\* the empty list has been found false
C15_Witness ==
    /\ fn_out = <<FALSE>>
    /\ fn_in = PyValue("list", 0, <<>>)

C17_FunctionTable ==
    /\ [][last_def' # NoDef =>
             /\ functions' = [functions EXCEPT ![last_def'.func] = last_def'.def]
             /\ last_def'.def \in FuncDefs
             /\ variables' = variables
             /\ acc' = acc
             /\ call_result' = call_result
             /\ pc' = pc]_vars
    /\ [][last_def' = NoDef => functions' = functions]_vars
    /\ [][\A f \in FuncNames : functions[f] # NoFunc => functions'[f] # NoFunc]_vars
    /\ [](\A f \in exited.defined : functions[f] # NoFunc)

\* a top-level call has returned whose body defined a function that was
\* undefined when the call started, and the caller goes on
C17_Witness ==
    /\ pc = "run"
    /\ stack = <<>>
    /\ exited.kind = "return"
    /\ exited.defined # {}
    /\ \A f \in exited.defined : functions[f] \in FuncDefs
    /\ \E n \in Names : variables[n] # Unbound

\* C18 as stated: no two variables are bound to the same engine, and a
\* fit_predict or train whose model argument is the variable n leaves every
\* engine bound to another variable as it was.
C18_ModelOwnership ==
    /\ [](\A n, m \in Names :
            (n # m /\ TypeOf(variables[n]) \in {"KMeansEngine", "AutoencoderEngine"})
            => variables[m] # variables[n])
    /\ [][\A n, m \in Names :
            (/\ n # m
             /\ last_ml'.via = VarExpr(n)
             /\ last_ml'.op \in {"fit_predict", "train"}
             /\ <<km, ae>>' # <<km, ae>>)
            => CASE TypeOf(variables[m]) = "KMeansEngine" ->
                      km'[EngineOf(variables[m])] = km[EngineOf(variables[m])]
                 [] TypeOf(variables[m]) = "AutoencoderEngine" -> ae' = ae
                 [] OTHER -> TRUE]_vars

\* C19 as stated: a constructor call makes an untrained engine out of an
\* unused instance, and a step on one engine leaves every other KMeansEngine
\* as it was, both in its trained parameters and in what a fit of it on any
\* data would compute next.
C19_NoSharedState ==
    [][/\ (last_call'.kind = "km" /\ last_call'.op = "__init__")
            => /\ ~km[last_call'.eng].alive
               /\ km'[last_call'.eng].centroids = <<>>
               /\ ~km'[last_call'.eng].fitted
       /\ \A e \in KMIds :
            (km[e].alive /\ ~(last_call'.kind = "km" /\ last_call'.eng = e))
            => /\ km'[e] = km[e]
               /\ \A X \in KMInputs :
                     Fit(km'[e], X, DrawsAt(rng'.pos, FitDraws(km'[e], X)))
                       = Fit(km[e], X, DrawsAt(rng.pos, FitDraws(km[e], X)))]_vars

\* C20: predict on a fitted engine gives every sample the index of the
\* first stored centroid at minimal distance, and leaves the engine and the
\* random module as they were, so that get_centroids answers the same
\* before and after.
C20_PredictReadsOnly ==
    [][\A e \in KMIds :
          (/\ last_call'.kind = "km" /\ last_call'.eng = e
           /\ last_call'.op = "predict"
           /\ km[e].fitted)
          => /\ km'[e].centroids = km[e].centroids
             /\ km'[e].labels = km[e].labels
             /\ km'[e].fitted = km[e].fitted
             /\ rng' = rng
             /\ GetCentroids(km'[e]) = GetCentroids(km[e])
             /\ LET X == last_call'.input[1]
                    c == km[e].centroids
                    d(x, j) == EuclideanDistance(x, c[j])
                IN X # <<>> =>
                     /\ last_call'.outcome = "return"
                     /\ Len(last_call'.value[1]) = Len(X)
                     /\ \A i \in 1..Len(X) :
                           LET l == last_call'.value[1][i] + 1 IN
                           /\ l \in 1..Len(c)
                           /\ \A j \in 1..Len(c) : ~RatLess(d(X[i], j), d(X[i], l))
                           /\ \A j \in 1..(l - 1) : RatLess(d(X[i], l), d(X[i], j))]_vars

\* predict has answered with labels that differ from the stored ones
C20_Witness ==
    /\ last_call.kind = "km"
    /\ last_call.op = "predict"
    /\ last_call.outcome = "return"
    /\ last_call.fitted_before
    /\ km[last_call.eng].fitted
    /\ km[last_call.eng].labels # last_call.value[1]
    /\ Len(km[last_call.eng].centroids) = 2

\* C21: get_centroids returns a deep copy.  Whatever a caller does to the
\* list it was handed (an item assignment on a row, the replacement of a
\* row of the outer list), no engine changes; the returned rows carry the
\* engine's numbers and none of them is a list object of the engine; and a
\* get_centroids call that follows another one on the same engine with no
\* fit in between returns the value the first one returned, also when the
\* first list was changed meanwhile.
C21_DeepCopy ==
    /\ [][last_call'.op = "mutate" => km' = km]_vars
    /\ [](handed.eng # 0 =>
            /\ handed.rows_shared = {}
            /\ handed.orig = km[handed.eng].centroids
            /\ Len(handed.orig) = km[handed.eng].n_clusters)
    /\ [][/\ last_call'.op = "get_centroids"
           /\ last_call'.outcome = "return"
           /\ last_call'.eng = handed.eng
           => /\ last_call'.value[1] = handed.orig
              /\ km' = km]_vars

\* both rows of a kept list were changed, one by an item assignment and
\* one by a replacement, and get_centroids was then called again
C21_Witness ==
    /\ handed.eng # 0
    /\ Len(handed.value) = 2
    /\ \A i \in 1..2 : handed.value[i] # handed.orig[i]
    /\ last_call.op = "get_centroids"
    /\ last_call.outcome = "return"
    /\ last_call.eng = handed.eng
    /\ last_call.value[1] = handed.orig
    /\ km[handed.eng].centroids = handed.orig

\* how far centroid i moved in a round
Movement(round, i) ==
    Rat(Abs(round.old_centroids[i][1] * round.centroids[i][2]
              - round.centroids[i][1] * round.old_centroids[i][2]),
        round.old_centroids[i][2] * round.centroids[i][2])

\* the rounds a completed fit ran start from the initial centroids, each
\* from the centroids the round before left, and the last one leaves the
\* engine's centroids
RoundsChained ==
    LET out == fn_out[1]
        t == out.trace IN
    /\ t[1].old_centroids
          = InitializeCentroids(fn_in.X, fn_in.eng.n_clusters, fn_in.draws)
    /\ \A j \in 1..(Len(t) - 1) : t[j + 1].old_centroids = t[j].centroids
    /\ out.eng.centroids = t[Len(t)].centroids
    /\ out.eng.labels = t[Len(t)].new_labels

\* C26 as stated: fit stops after the first round in which every centroid
\* moved by less than the tolerance (a move of exactly the tolerance is
\* still a move), and otherwise runs max_iterations rounds.
C26_StopsBelowTolerance ==
    (fn_out # <<>> /\ fn_out[1].outcome = "return") =>
        LET t == fn_out[1].trace
            Settled(j) == \A i \in 1..Len(t[j].centroids) :
                              RatLess(Movement(t[j], i), fn_in.eng.tolerance) IN
        /\ Len(t) \in 1..fn_in.eng.max_iterations
        /\ RoundsChained
        /\ \A j \in 1..(Len(t) - 1) : ~Settled(j)
        /\ Len(t) < fn_in.eng.max_iterations => Settled(Len(t))

\* C26 amended: fit stops after the first round in which no centroid moved
\* by more than the tolerance (a move of exactly the tolerance ends the
\* loop), and otherwise runs max_iterations rounds.
C26_StopsWithinTolerance ==
    (fn_out # <<>> /\ fn_out[1].outcome = "return") =>
        LET t == fn_out[1].trace
            Settled(j) == \A i \in 1..Len(t[j].centroids) :
                              ~RatLess(fn_in.eng.tolerance, Movement(t[j], i)) IN
        /\ Len(t) \in 1..fn_in.eng.max_iterations
        /\ RoundsChained
        /\ \A j \in 1..(Len(t) - 1) : ~Settled(j)
        /\ Len(t) < fn_in.eng.max_iterations => Settled(Len(t))

\* a fit with a tolerance above 0 ended before max_iterations after a round
\* in which a centroid moved by exactly the tolerance
C26_Witness ==
    /\ fn_out # <<>>
    /\ fn_out[1].outcome = "return"
    /\ Len(fn_out[1].trace) < fn_in.eng.max_iterations
    /\ fn_in.eng.tolerance # <<0, 1>>
    /\ LET last == fn_out[1].trace[Len(fn_out[1].trace)] IN
       \E i \in 1..Len(last.centroids) : Movement(last, i) = fn_in.eng.tolerance

\* C27: in every round of a fit the number of centroids is n_clusters; the
\* centroid of a cluster that new_labels gives at least one sample is the
\* mean of exactly those samples, and the centroid of a cluster with no
\* sample is the centroid the round started with.
C27_UpdateRound ==
    (fn_out # <<>> /\ fn_out[1].outcome = "return") =>
        /\ RoundsChained
        /\ \A j \in 1..Len(fn_out[1].trace) :
              LET round == fn_out[1].trace[j] IN
              /\ Len(round.centroids) = fn_in.eng.n_clusters
              /\ Len(round.new_labels) = Len(fn_in.X)
              /\ \A c \in 1..fn_in.eng.n_clusters :
                    LET assigned == {s \in 1..Len(fn_in.X) : round.new_labels[s] = c - 1} IN
                    IF assigned = {}
                    THEN round.centroids[c] = round.old_centroids[c]
                    ELSE /\ round.centroids[c][1] * Cardinality(assigned)
                              = SumOver(assigned, fn_in.X) * round.centroids[c][2]
                         /\ round.centroids[c][2] > 0

\* a round of a completed fit left one cluster without samples, at a
\* centroid away from the origin, and moved the centroid of another cluster
C27_Witness ==
    /\ fn_out # <<>>
    /\ fn_out[1].outcome = "return"
    /\ \E j \in 1..Len(fn_out[1].trace) :
          LET round == fn_out[1].trace[j] IN
          /\ \E c \in 1..fn_in.eng.n_clusters :
                /\ \A s \in 1..Len(fn_in.X) : round.new_labels[s] # c - 1
                /\ round.centroids[c] # <<0, 1>>
          /\ \E c \in 1..fn_in.eng.n_clusters :
                /\ \E s \in 1..Len(fn_in.X) : round.new_labels[s] = c - 1
                /\ round.centroids[c] # round.old_centroids[c]

\* C28 as stated: a fit on data that is not empty and has at least
\* n_clusters samples returns after at most max_iterations rounds, with
\* fitted set, n_clusters centroids and one label in 0..n_clusters-1 for
\* each sample.
C28_FitTerminates ==
    (/\ fn_out # <<>>
     /\ fn_in.X # <<>>
     /\ Len(fn_in.X) >= fn_in.eng.n_clusters) =>
        /\ fn_out[1].outcome = "return"
        /\ Len(fn_out[1].trace) <= fn_in.eng.max_iterations
        /\ fn_out[1].eng.fitted
        /\ Len(fn_out[1].eng.centroids) = fn_in.eng.n_clusters
        /\ Len(fn_out[1].eng.labels) = Len(fn_in.X)
        /\ \A s \in 1..Len(fn_in.X) :
              fn_out[1].eng.labels[s] \in 0..(fn_in.eng.n_clusters - 1)

\* C5 as stated: once an error has been raised while evaluating anything,
\* no further statement runs and interpret_code reports errors.
C5_ErrorsPropagate ==
    error_raised =>
        /\ pc \in {"raising", "done"}
        /\ pc = "done" => errors # <<>>

\* the methods that start with "if not self.fitted: raise ValueError"
GuardedMethods ==
    {"predict", "get_centroids", "encode", "decode", "reconstruct",
     "reconstruction_error"}

\* C6: an engine is constructed with fitted = false; fitted turns true only
\* in a fit (or fit_predict) that returns, and never turns false again;
\* every guarded method called on an unfitted engine raises and returns no
\* value.
C6_Lifecycle ==
    /\ [](last_call.op \in GuardedMethods /\ ~last_call.fitted_before
            => last_call.outcome = "raise" /\ last_call.value = <<>>)
    /\ [][
          /\ \A e \in KMIds :
                /\ (~km[e].alive /\ km'[e].alive) => ~km'[e].fitted
                /\ (km[e].alive /\ km[e].fitted) => (km'[e].alive /\ km'[e].fitted)
                /\ (~km[e].fitted /\ km'[e].fitted) =>
                      /\ last_call'.kind = "km" /\ last_call'.eng = e
                      /\ last_call'.op \in {"fit", "fit_predict"}
                      /\ last_call'.outcome = "return"
          /\ (~ae.alive /\ ae'.alive) => ~ae'.fitted
          /\ (ae.alive /\ ae.fitted) => (ae'.alive /\ ae'.fitted)
          /\ (~ae.fitted /\ ae'.fitted) =>
                /\ last_call'.kind = "ae"
                /\ last_call'.op = "fit"
                /\ last_call'.outcome = "return"
       ]_vars

\* a guarded method of an unfitted autoencoder was refused while a KMeans
\* engine whose fit had failed before is fitted
C6_Witness ==
    /\ last_call.kind = "ae"
    /\ last_call.op = "reconstruct"
    /\ ~last_call.fitted_before
    /\ last_call.outcome = "raise"
    /\ ae.alive /\ ~ae.fitted /\ ae.weights # <<>>
    /\ \E e \in KMIds : km[e].fitted

\* C7 as stated: the labels a completed fit stored are what predict
\* returns on the training data, the nearest of the final centroids (the
\* lowest index on ties).
C7_LabelsNearestFinal ==
    \A e \in KMIds :
        km[e].fitted =>
            Predict(km[e], km_data[e]) = [outcome |-> "return", value |-> <<km[e].labels>>]

\* C8 as stated: every completed fit of a configuration (seed, n_clusters,
\* max_iterations) on the same data leaves the centroids and labels that
\* the first completed fit of that configuration on that data left.
C8_FitDeterministic ==
    \A e \in KMIds :
        km[e].fitted =>
            \E f \in first_fits :
                /\ f.key = FitKey(km[e], km_data[e])
                /\ f.centroids = km[e].centroids
                /\ f.labels = km[e].labels

\* C9 as stated: encode, decode and reconstruct hand back one vector for
\* one sample, and a list of exactly n vectors for a list of n >= 1 samples.
C9_ShapeMatchesInput ==
    (/\ last_call.kind = "ae"
     /\ last_call.op \in {"encode", "decode", "reconstruct"}
     /\ last_call.outcome = "return")
    => IF last_call.input[1].shape = "vector"
       THEN last_call.value[1].shape = "vector"
       ELSE /\ last_call.value[1].shape = "matrix"
            /\ Len(last_call.value[1].rows) = Len(last_call.input[1].rows)

\* C10 as stated: a dispatch on a value that is no engine object, or on an
\* engine whose class does not define the requested method, raises and
\* invokes no engine method; on an engine that defines it, that method and no other
\* is invoked (for train, the fit it stands for, or nothing when the data
\* is not an [X, y] pair and the call raises).
C10_CapabilityDispatch ==
    last_ml.op \in MlOps =>
        IF /\ TypeOf(last_ml.recv) \in {"KMeansEngine", "AutoencoderEngine"}
           /\ HasAttr(last_ml.recv, IF last_ml.op = "train" THEN "fit" ELSE last_ml.op)
        THEN \/ last_ml.invoked = (IF last_ml.op = "train" THEN "fit" ELSE last_ml.op)
             \/ last_ml.op = "train" /\ last_ml.invoked = "none" /\ last_ml.outcome = "raise"
        ELSE /\ last_ml.outcome = "raise"
             /\ last_ml.invoked \notin
                    Attributes("KMeansEngine") \cup Attributes("AutoencoderEngine")

\* ---- statement lists, loops and the pending return (SpecProg)
\* the positions of the trace where a statement with a one-part id (a
\* statement of the program's own list) started, and where it ended
TraceOf(r) == r.st.trace

Events(trace, ev, depth) ==
    LET Wanted(e) == e.ev = ev /\ Len(e.id) = depth IN SelectSeq(trace, Wanted)

\* two statements of the same statement list
Siblings(id1, id2) ==
    /\ Len(id1) = Len(id2)
    /\ SubSeq(id1, 1, Len(id1) - 1) = SubSeq(id2, 1, Len(id2) - 1)

\* the number of calls of user functions that are running at a position
\* of the trace
CallDepth(trace, a) ==
    Cardinality({b \in 1..(a - 1) : trace[b].ev = "call"})
        - Cardinality({b \in 1..(a - 1) : trace[b].ev = "exit"})

\* in every list that ran, each statement but the first started right
\* after the statement before it in the source, with no statement of the
\* same list in between (the statements of a call that ran meanwhile are
\* those of another execution of the list)
InSourceOrder(trace) ==
    \A a \in 1..Len(trace) :
        (trace[a].ev = "statement" /\ trace[a].id[Len(trace[a].id)] > 1) =>
            LET before == {b \in 1..(a - 1) :
                             /\ trace[b].ev = "statement"
                             /\ Siblings(trace[b].id, trace[a].id)
                             /\ CallDepth(trace, b) = CallDepth(trace, a)} IN
            /\ before # {}
            /\ LET last == CHOOSE b \in before : \A c \in before : c <= b IN
               trace[last].id[Len(trace[last].id)] = trace[a].id[Len(trace[a].id)] - 1

\* the statements of the program's own list that started: the first, the
\* second, ... with none left out or repeated, and all of them unless an
\* error ended the run
RunsWholeList(r, list) ==
    LET started == Events(TraceOf(r), "statement", 1) IN
    /\ \A i \in 1..Len(started) : started[i].id = <<i>>
    /\ Len(started) <= Len(list)
    /\ r.st.error = "" => Len(started) = Len(list)

PendingValues == {PyInt(0), PyInt(7)}

\* C22: the statements of a list run in source order.  At top level (in_function
\* false) every statement of the program runs, whatever the pending return
\* value is, and the program yields what it yields with no pending return;
\* with a pending return and in_function true the list stops after its
\* first statement and yields the pending value.
C22_SourceOrder ==
    fn_out # <<>> =>
        /\ InSourceOrder(TraceOf(fn_out[1]))
        /\ RunsWholeList(fn_out[1], fn_in)
        /\ \A v \in PendingValues :
              /\ LET r == visitStatement_list(fn_in, [InitialState EXCEPT !.return_value = v])
                 IN /\ RunsWholeList(r, fn_in)
                    /\ InSourceOrder(TraceOf(r))
                    /\ r.val = fn_out[1].val
                    /\ r.st.error = fn_out[1].st.error
              /\ LET r == visitStatement_list(fn_in, [InitialState EXCEPT !.return_value = v,
                                                                          !.in_function = TRUE])
                 IN (fn_in # <<>> /\ r.st.error = "") =>
                        /\ Len(Events(TraceOf(r), "statement", 1)) = 1
                        /\ r.val = v

\* a program of three statements ran to its end: a function body of two
\* statements ran and returned before the last statement of the program
C22_Witness ==
    /\ fn_out # <<>>
    /\ fn_out[1].st.error = ""
    /\ Len(fn_in) = 3
    /\ \E a, b, c \in 1..Len(TraceOf(fn_out[1])) :
          /\ a < b /\ b < c
          /\ TraceOf(fn_out[1])[a].ev = "statement"
          /\ Len(TraceOf(fn_out[1])[a].id) = 3
          /\ TraceOf(fn_out[1])[a].id[3] = 2
          /\ TraceOf(fn_out[1])[b].ev = "return"
          /\ TraceOf(fn_out[1])[c].ev = "statement"
          /\ TraceOf(fn_out[1])[c].id = <<3>>

\* the last value of a sequence of values that is not None, or None
LastNotNone(values) ==
    LET kept == {i \in 1..Len(values) : values[i] # PyNone} IN
    IF kept = {} THEN PyNone
    ELSE values[CHOOSE i \in kept : \A j \in kept : j <= i]

\* the values of the statements of a list that ended between two positions
\* of the trace; the ids of the list's statements have the given length
\* and start with the given prefix
ResultsBetween(trace, a, b, prefix) ==
    LET Wanted(e) == /\ e.ev = "done"
                     /\ Len(e.id) = Len(prefix) + 1
                     /\ SubSeq(e.id, 1, Len(prefix)) = prefix
        events == SelectSeq(SubSeq(trace, a, b), Wanted) IN
    [i \in 1..Len(events) |-> events[i].val]

\* C23: a statement list yields the value of the last of its statements
\* that ran and did not yield None, and None if there is none: for the
\* program's own list and for every execution of a loop body.
C23_ListResult ==
    (fn_out # <<>> /\ fn_out[1].st.error = "") =>
        LET trace == TraceOf(fn_out[1]) IN
        /\ fn_out[1].val = LastNotNone(ResultsBetween(trace, 1, Len(trace), <<>>))
        /\ \A b \in 1..Len(trace) :
              trace[b].ev = "body_done" =>
                  LET a == CHOOSE i \in 1..b :
                              /\ trace[i].ev = "body" /\ trace[i].id = trace[b].id
                              /\ \A j \in (i + 1)..b :
                                    ~(trace[j].ev = "body" /\ trace[j].id = trace[b].id)
                  IN trace[b].val
                        = LastNotNone(ResultsBetween(trace, a, b, trace[b].id \o <<1>>))

\* a program of three statements ran to its end; its second statement
\* yielded a value, its third None, and the program yielded that value
C23_Witness ==
    /\ fn_out # <<>>
    /\ fn_out[1].st.error = ""
    /\ Len(fn_in) = 3
    /\ LET values == ResultsBetween(TraceOf(fn_out[1]), 1, Len(TraceOf(fn_out[1])), <<>>) IN
       /\ Len(values) = 3
       /\ values[2] # PyNone
       /\ values[3] = PyNone
       /\ fn_out[1].val = values[2]
       /\ values[1] # values[2]

\* the steps of one loop, in the order they happened
LoopEvents == {"init", "condition", "body", "body_done", "post"}

StepsOf(trace, id) ==
    LET Wanted(e) == e.ev \in LoopEvents /\ e.id = id IN SelectSeq(trace, Wanted)

ForLoopIds(trace) == {trace[a].id : a \in {b \in 1..Len(trace) : trace[b].ev = "init"}}

\* what may follow a step of a for loop
ForLoopOrder(step, next) ==
    CASE step.ev = "init" -> next.ev = "condition"
      [] step.ev = "condition" /\ is_truthy(step.val) -> next.ev = "body"
      [] step.ev = "condition" /\ ~is_truthy(step.val) -> next.ev = "init"
      [] step.ev = "body" -> next.ev = "body_done"
      [] step.ev = "body_done" -> next.ev = "post"
      [] step.ev = "post" -> next.ev = "condition"

\* the loop  for (x = 0; x < MaxLoop; x = x + 1) { ... }  of the pool
IsCountingLoop(s) ==
    /\ s.k = "for_loop"
    /\ s.name = "x" /\ s.expr = NumberExpr(0)
    /\ s.cond = Less("x", MaxLoop)
    /\ s.post = Assignment("x", PlusExpr("x", 1))

\* C24: a for loop runs its first assignment once, then checks the
\* condition; a truthy check is followed by the body and then the second
\* assignment, and then the next check; the first falsy check ends the
\* loop.  for (x = 0; x < MaxLoop; x = x + 1) runs its body with
\* x = 0, ..., MaxLoop - 1 in that order and leaves x = MaxLoop.
C24_ForLoopOrder ==
    (fn_out # <<>> /\ fn_out[1].st.error = "") =>
        LET trace == TraceOf(fn_out[1]) IN
        /\ \A id \in ForLoopIds(trace) :
              LET steps == StepsOf(trace, id) IN
              /\ steps[1].ev = "init"
              /\ \A i \in 1..(Len(steps) - 1) : ForLoopOrder(steps[i], steps[i + 1])
              /\ steps[Len(steps)].ev = "condition"
              /\ ~is_truthy(steps[Len(steps)].val)
        /\ \A i \in 1..Len(fn_in) :
              IsCountingLoop(fn_in[i]) =>
                  LET bodies == Events(SelectSeq(trace, LAMBDA e : e.id = <<i>>), "body", 1)
                      done == Events(SelectSeq(trace, LAMBDA e : e.id = <<i>>), "done", 1) IN
                  /\ Len(bodies) = MaxLoop
                  /\ \A j \in 1..MaxLoop : bodies[j].variables["x"] = PyInt(j - 1)
                  /\ Len(done) = 1
                  /\ done[1].variables["x"] = PyInt(MaxLoop)

\* a program ran the counting loop to its end, and a for loop whose first
\* check is falsy
C24_Witness ==
    /\ fn_out # <<>>
    /\ fn_out[1].st.error = ""
    /\ \E i \in 1..Len(fn_in) :
          /\ IsCountingLoop(fn_in[i])
          /\ fn_out[1].st.variables["x"] = PyInt(MaxLoop)
          /\ Len(Events(StepsOf(TraceOf(fn_out[1]), <<i>>), "post", 1)) = MaxLoop
    /\ \E id \in ForLoopIds(TraceOf(fn_out[1])) :
          LET steps == StepsOf(TraceOf(fn_out[1]), id) IN
          /\ Len(steps) >= 2
          /\ steps[2].ev = "condition"
          /\ ~is_truthy(steps[2].val)

\* the positions of the trace where a loop statement ended
LoopsDone(trace) ==
    {b \in 1..Len(trace) :
        /\ trace[b].ev = "done"
        /\ \E c \in 1..b : trace[c].ev = "condition" /\ trace[c].id = trace[b].id}

\* the values of the executions of the body of the loop that ended at
\* position b, from the start of that loop statement on
BodyResults(trace, b) ==
    LET a == CHOOSE i \in 1..b :
                /\ trace[i].ev = "statement" /\ trace[i].id = trace[b].id
                /\ \A j \in (i + 1)..b :
                      ~(trace[j].ev = "statement" /\ trace[j].id = trace[b].id)
        Wanted(e) == e.ev = "body_done" /\ e.id = trace[b].id
        events == SelectSeq(SubSeq(trace, a, b), Wanted) IN
    [i \in 1..Len(events) |-> events[i].val]

\* C25 as stated: a for loop and a while loop yield the result of the last
\* execution of the body, None when that execution yielded None, and
\* None when the body never ran.
C25_LastBodyResult ==
    (fn_out # <<>> /\ fn_out[1].st.error = "") =>
        \A b \in LoopsDone(TraceOf(fn_out[1])) :
            LET results == BodyResults(TraceOf(fn_out[1]), b) IN
            TraceOf(fn_out[1])[b].val
                = IF results = <<>> THEN PyNone ELSE results[Len(results)]

\* C25: a for loop and a while loop yield the result of the last execution
\* of the body that did not yield None, and None when every execution
\* yielded None or the body never ran.
C25_LastBodyResultNotNone ==
    (fn_out # <<>> /\ fn_out[1].st.error = "") =>
        \A b \in LoopsDone(TraceOf(fn_out[1])) :
            TraceOf(fn_out[1])[b].val = LastNotNone(BodyResults(TraceOf(fn_out[1]), b))

\* a for loop and a while loop ended whose last execution of the body
\* yielded None after an earlier one had yielded a value, and a loop
\* whose body never ran
C25_Witness ==
    /\ fn_out # <<>>
    /\ fn_out[1].st.error = ""
    /\ \A k \in {"for_loop", "while_loop"} :
          \E i \in 1..Len(fn_in) :
              /\ fn_in[i].k = k
              /\ \E b \in LoopsDone(TraceOf(fn_out[1])) :
                    LET results == BodyResults(TraceOf(fn_out[1]), b) IN
                    /\ TraceOf(fn_out[1])[b].id = <<i>>
                    /\ Len(results) >= 2
                    /\ results[Len(results)] = PyNone
                    /\ results[1] # PyNone
                    /\ TraceOf(fn_out[1])[b].val = results[1]
    /\ \E b \in LoopsDone(TraceOf(fn_out[1])) :
          /\ BodyResults(TraceOf(fn_out[1]), b) = <<>>
          /\ TraceOf(fn_out[1])[b].val = PyNone

\* the position of the call that the return at position r belongs to: the
\* latest call of the function one level up
CallOf(trace, r) ==
    LET calls == {c \in 1..(r - 1) :
                    /\ trace[c].ev = "call"
                    /\ trace[c].id = trace[r].id
                    /\ CallDepth(trace, c) = CallDepth(trace, r) - 1} IN
    CHOOSE c \in calls : \A d \in calls : d <= c

\* the positions between a call and its return where a statement of the
\* body of the called function started, in that call
BodyStarts(trace, c, r, j) ==
    {a \in (c + 1)..(r - 1) :
        /\ trace[a].ev = "statement"
        /\ trace[a].id = trace[r].id \o <<1, j>>
        /\ CallDepth(trace, a) = CallDepth(trace, r)}

\* C29: return_value is None whenever a statement starts; it holds a value
\* only when the return expression of a function has been evaluated and
\* is None again when the call is left.  Every statement of a function
\* body runs, once and in source order, between the call and the
\* evaluation of the return expression, in nested and recursive calls too.
C29_NoPendingReturnAtStatement ==
    fn_out # <<>> =>
        LET trace == TraceOf(fn_out[1]) IN
        /\ \A a \in 1..Len(trace) :
              /\ trace[a].ev # "return" => trace[a].return_value = PyNone
              /\ trace[a].ev = "return" => trace[a].return_value = trace[a].val
        /\ fn_out[1].st.return_value = PyNone
        /\ \A r \in 1..Len(trace) :
              trace[r].ev = "return" =>
                  LET c == CallOf(trace, r)
                      body == fn_in[trace[r].id[1]].body IN
                  /\ \A j \in 1..Len(body) :
                        Cardinality(BodyStarts(trace, c, r, j)) = 1
                  /\ \A j \in 1..(Len(body) - 1) :
                        \A a \in BodyStarts(trace, c, r, j) :
                            \A b \in BodyStarts(trace, c, r, j + 1) : a < b

\* a program ran to its end in which a function called from a function
\* called itself, and a body statement started after a call made by an
\* earlier statement of the same body had returned
C29_Witness ==
    /\ fn_out # <<>>
    /\ fn_out[1].st.error = ""
    /\ LET trace == TraceOf(fn_out[1]) IN
       /\ \E a \in 1..Len(trace) : CallDepth(trace, a) = 3
       /\ \E e, a \in 1..Len(trace) :
             /\ e < a
             /\ trace[e].ev = "exit"
             /\ trace[a].ev = "statement"
             /\ Len(trace[a].id) = 3
             /\ trace[a].id[3] = 2
             /\ CallDepth(trace, a) = CallDepth(trace, e) - 1
             /\ CallDepth(trace, a) >= 1
             /\ trace[a].in_function
             /\ \A b \in (e + 1)..(a - 1) : trace[b].ev \notin {"call", "return"}

\* the engines a program can name: those bound to its variables
BoundEngines ==
    {variables[n] : n \in Names} \cap ({KMHandle[e] : e \in KMIds} \cup {AEHandle})

\* C30: every KMeansEngine or AutoencoderEngine value bound to a variable
\* of the program is fitted; kmeans(...) and autoencoder(...) that do not
\* return leave the program aborted with nothing bound; and no guarded
\* method is ever entered on an engine that is not fitted, so its "must be
\* fitted" error is never raised.
C30_OnlyFittedEngines ==
    /\ [](\A v \in BoundEngines :
            IF v = AEHandle
            THEN ae.alive /\ ae.fitted
            ELSE km[EngineOf(v)].alive /\ km[EngineOf(v)].fitted)
    /\ [](last_call.op \in GuardedMethods => last_call.fitted_before)
    /\ [][/\ last_ml'.op \in MlConstructors
           /\ last_ml'.outcome = "raise"
           /\ last_ml' # last_ml
           => /\ pc' = "raising"
              /\ variables' = variables]_vars

\* a guarded method of each kind of engine has returned: both engines are
\* bound to variables, the KMeans engine was fitted a second time through
\* fit_predict, and predict was then called on it
C30_Witness ==
    /\ AEHandle \in BoundEngines
    /\ \E e \in KMIds :
          /\ KMHandle[e] \in BoundEngines
          /\ km_data[e] = KMData("vec2")
          /\ last_call.kind = "km"
          /\ last_call.eng = e
          /\ last_call.op = "predict"
          /\ last_call.outcome = "return"
    /\ last_ml.op = "predict"
    /\ last_ml.outcome = "return"

TypeOK ==
    /\ pc \in {"parse", "run", "returned", "raising", "done"}
    /\ Len(stack) <= MaxDepth
    /\ Len(entry) = Len(stack)
    /\ Len(bound) = Len(stack)
====
